---- MODULE Spec2Model ----
(***************************************************************************)
(* Model of the content segmentation and multi-channel dispatch engine of  *)
(* trendradar: notification/splitter.py (split_content_into_batches and    *)
(* its RSS section helpers) and notification/dispatcher.py.                *)
(*                                                                         *)
(* A message string is modelled as a sequence of pieces.  Each piece is    *)
(* one f-string of the source (base header, section banner, word header,   *)
(* title line, separator, ...) and carries its UTF-8 byte length, so that  *)
(* string concatenation is sequence concatenation and                      *)
(* len(s.encode("utf-8")) is the sum of the piece lengths.  A piece whose  *)
(* source string is "" for the given format_type is absent.                *)
(***************************************************************************)
EXTENDS Integers, Sequences, FiniteSets, TLC

\* ---------------------------------------------------------------------------
\* Bounds of the model
\* ---------------------------------------------------------------------------
MaxGroups == 2      \* groups (keyword stats / sources) per section
MaxItems == 2       \* titles per group
MaxTitles == 2      \* titles in the whole report (all four sections)
MaxFailed == 2      \* failed source ids
TinyMaxBytes == 3   \* a byte budget that header, footer and one line fill
MinMaxBytes == 6    \* smallest byte budget tried
MaxMaxBytes == 9    \* largest byte budget tried in the dense range
HugeMaxBytes == 60  \* a budget under which every report fits in one batch

\* Byte lengths of the rendered pieces, in scaled units.
HeaderLen == 1      \* base_header (when the format has one)
FooterLen == 1      \* base_footer without the version notice
VersionLen == 1     \* version notice line of base_footer
BannerLen == 1      \* a section banner
GroupHeaderLen == 1 \* word_header / source_header
SepLen == 1         \* separator between keyword groups
FailedLineLen == 1  \* one failed-source line
PlaceholderLen == 4 \* the empty-report sentence
SmallTitle == 1     \* a short title line
BigTitle == 7       \* a long title line
NewlineLen == 1     \* "\n": after a non-last title line of a keyword group, after a source group
MarkerLen == 1      \* the "new" marker of a title whose is_new flag is set

\* Dispatcher: credentials in the whole configuration, largest configured
\* MAX_ACCOUNTS_PER_CHANNEL, batches of one RSS message.
MaxCredentials == 4
MaxCap == 2
MaxBatches == 2
MaxRawLen == 5         \* atoms of a raw configuration string
MaxCalls == 2          \* calls of dispatch_all on one dispatcher
MaxRuns == 2           \* runs of the program on one day
MaxTicks == 1          \* seconds the clock moves on between two accounts
MaxVersionLen == 6     \* characters of the text at the version URL
\* config.get("MAX_ACCOUNTS_PER_CHANNEL", 3)
DefaultMaxAccounts == 3

FormatTypes == {"feishu", "telegram", "bark"}
Modes == {"daily", "current", "incremental"}
Sources == {"s1", "s2"}
TitleLens == {SmallTitle, BigTitle}
StatsSections == {"stats", "rss_stats"}
NewSections == {"new", "rss_new"}

VARIABLES
    \* inputs of split_content_into_batches; now is the time get_time_func
    \* returns to the call
    report_data, format_type, update_info, max_bytes, mode,
    reverse_content_order, rss_items, rss_new_items, now,
    \* locals of split_content_into_batches
    batches, current_batch, current_batch_has_content,
    \* position in the function: step, section index, group index, title index
    pc, sidx, i, j,
    \* fields of NotificationDispatcher
    config, max_accounts,
    \* the dispatch call in progress and the mapping it builds
    call, results, ch,
    \* locals of the account loop of one channel
    accounts, partners, loop_len, account_idx, account_results,
    \* locals of the batch loop of one account (dispatch_rss)
    rss_batches, batch_idx, resp,
    \* history: the account attempts made by the call in progress, in order,
    \* with their results; the calls that have returned before it, with the
    \* sends and the mapping of the last of them
    attempts, previous,
    \* position in the dispatcher
    dpc,
    \* NewsAnalyzer: the notification settings of ctx.config, whether the run
    \* has content to push, whether the current time lies in the push window,
    \* the push record of today kept by the push manager
    cfg, has_any_content, in_time_range, push_record,
    \* position in _send_notification_if_needed and its return value (FALSE
    \* until it returns)
    gpc, returned,
    \* history: the runs of the day begun so far, and how many of their
    \* dispatches had a successful channel
    runs, pushed,
    \* NewsAnalyzer: report_mode; what the analysis of the run has found (a
    \* stat with count > 0, new titles, RSS items); position in run and in
    \* _execute_mode_strategy; the exception on its way out of run;
    \* history: the calls of ctx.cleanup
    report_mode, stats_matched, new_found, rss_found, rpc, exc, cleanups,
    \* check_version_update: its argument, the outcome of requests.get with
    \* raise_for_status, its position and the pair it returns
    current_version, response, vpc, update

inputs == <<report_data, format_type, update_info, max_bytes, mode,
            reverse_content_order, rss_items, rss_new_items, now>>
splitter_vars == <<inputs, batches, current_batch, current_batch_has_content,
                   pc, sidx, i, j>>
fields == <<config, max_accounts>>
loop_vars == <<accounts, partners, loop_len, account_idx, account_results>>
batch_vars == <<rss_batches, batch_idx, resp>>
history == <<attempts, previous>>
dispatcher_vars == <<fields, call, results, ch, loop_vars, batch_vars,
                     history, dpc>>
caller_vars == <<cfg, has_any_content, in_time_range, push_record, gpc,
                 returned, runs, pushed>>
version_vars == <<current_version, response, vpc, update>>
run_vars == <<report_mode, stats_matched, new_found, rss_found, rpc, exc,
              cleanups, version_vars>>
vars == <<splitter_vars, dispatcher_vars, caller_vars, run_vars>>

\* ---------------------------------------------------------------------------
\* Strings as sequences of pieces
\* ---------------------------------------------------------------------------
NoTitle == <<0, 0>>

\* One rendered piece; the empty string has no piece.
Piece(k, sec, g, n, orig, len) ==
    IF len = 0 THEN <<>>
    ELSE <<[k |-> k, sec |-> sec, g |-> g, n |-> n, orig |-> orig, len |-> len]>>

RECURSIVE ByteLen(_)
ByteLen(s) == IF s = <<>> THEN 0 ELSE Head(s).len + ByteLen(Tail(s))

RECURSIVE SumLens(_)
SumLens(groups) ==
    IF groups = <<>> THEN 0 ELSE Len(Head(groups).titles) + SumLens(Tail(groups))

\* ---------------------------------------------------------------------------
\* The report: titles tagged by their place, regrouped by source
\* ---------------------------------------------------------------------------
\* A keyword-stat or source-group list with each title tagged by its place
\* <<group, index>> in the input.
Tagged(groups) ==
    [g \in 1..Len(groups) |->
        [titles |-> [n \in 1..Len(groups[g].titles) |->
            [len |-> groups[g].titles[n].len,
             source_name |-> groups[g].titles[n].source_name,
             is_new |-> groups[g].titles[n].is_new,
             orig |-> <<g, n>>]]]]

RECURSIVE Flatten(_)
Flatten(groups) ==
    IF groups = <<>> THEN <<>> ELSE Head(groups).titles \o Flatten(Tail(groups))

\* Keys of source_map in insertion order: source names by first occurrence.
RECURSIVE SourceOrder(_, _)
SourceOrder(titles, seen) ==
    IF titles = <<>> THEN <<>>
    ELSE IF Head(titles).source_name \in seen
         THEN SourceOrder(Tail(titles), seen)
         ELSE <<Head(titles).source_name>>
                  \o SourceOrder(Tail(titles), seen \cup {Head(titles).source_name})

\* source_list of _process_rss_new_titles_section: the titles of all keyword
\* groups regrouped by source_name.
SourceList(rss_new_stats) ==
    LET flat == Flatten(Tagged(rss_new_stats))
        names == SourceOrder(flat, {})
    IN  [s \in 1..Len(names) |->
            [titles |-> LET From(t) == t.source_name = names[s]
                        IN  SelectSeq(flat, From)]]

\* Mutant of total_items: the keyword groups are counted, not their entries.
total_groups(rss_new_stats) == Len(rss_new_stats)

\* total_items of _process_rss_new_titles_section: the lengths of the values
\* of source_map, summed.
total_items(rss_new_stats) == SumLens(SourceList(rss_new_stats))

\* ---------------------------------------------------------------------------
\* Rendering (splitter.py); lengths are the bytes of the rendered f-strings
\* ---------------------------------------------------------------------------
base_header ==
    Piece("header", "", 0, 0, NoTitle,
          IF format_type = "feishu" THEN 0 ELSE HeaderLen)

\* Mutant of base_footer: the time is written with a width that grows with
\* its value.
base_footer_growing ==
    Piece("footer", "", 0, now, NoTitle, FooterLen + now)
        \o (IF update_info
            THEN Piece("version", "", 0, 0, NoTitle, VersionLen)
            ELSE <<>>)

base_footer ==
    Piece("footer", "", 0, now, NoTitle, FooterLen)
        \o (IF update_info
            THEN Piece("version", "", 0, 0, NoTitle, VersionLen)
            ELSE <<>>)

\* stats_header, rss_header, new_header (both new sections), failed_header.
\* failed_header stays "" for the formats its if-chain does not name.
\* The banner of the RSS new-items section shows total_items in its n field.
SectionBanner(sec) ==
    Piece("banner", sec, 0,
          IF sec = "rss_new" THEN total_items(rss_new_items) ELSE 0, NoTitle,
          IF sec = "failed" /\ format_type = "bark" THEN 0 ELSE BannerLen)

\* word_header of a keyword group, source_header of a source group; the
\* source_header of the RSS new-items section shows count = len(titles) in
\* its n field.
GroupHeader(sec, g) ==
    Piece("group", sec, g,
          IF sec = "rss_new"
          THEN Len(SourceList(rss_new_items)[g].titles) ELSE 0,
          NoTitle, GroupHeaderLen)

\* title_data.copy() with is_new = False, as formatted in the new-items
\* sections.
title_data_copy(title) == [title EXCEPT !.is_new = FALSE]

\* Bytes of format_title_for_platform(platform, title_data, ...): the title
\* with its "new" marker when the entry passed is flagged new.
format_title_for_platform(title) ==
    title.len + (IF title.is_new THEN MarkerLen ELSE 0)

\* first_news_line / news_line: a keyword group's line ends with one more "\n"
\* unless it is the group's last line; a source group's line never does.
TitleLine(sec, g, n, title, last) ==
    Piece("title", sec, g, n, title.orig,
          format_title_for_platform(title)
              + (IF sec \in StatsSections /\ ~last THEN NewlineLen ELSE 0))

Separator(sec, g) == Piece("separator", sec, g, 0, NoTitle, SepLen)

BlankLine(sec, g) == Piece("blank", sec, g, 0, NoTitle, NewlineLen)

FailedLine(n) == Piece("failed_line", "failed", 0, n, NoTitle, FailedLineLen)

\* Mutant of mode_text: the mode is ignored.
ModeTextIgnoringMode == "no matches"

\* mode_text: the sentence of the empty report, by mode.
mode_text ==
    IF mode = "incremental" THEN "no new matches in incremental mode"
    ELSE IF mode = "current" THEN "no matches in current-list mode"
    ELSE "no matches"

Placeholder == Piece("placeholder", mode_text, 0, 0, NoTitle, PlaceholderLen)

\* ---------------------------------------------------------------------------
\* The report: sections in processing order
\* ---------------------------------------------------------------------------
\* Mutant of SectionOrder: reverse_content_order is ignored.
SectionOrderIgnoringFlag == <<"stats", "rss_stats", "new", "rss_new">>

SectionOrder ==
    IF reverse_content_order
    THEN <<"new", "rss_new", "stats", "rss_stats">>
    ELSE <<"stats", "rss_stats", "new", "rss_new">>

\* Mutant of Pipeline: the failed-sources block is rendered first.
PipelineFailedFirst == <<"failed">> \o SectionOrder

\* The sections in processing order; the failed-sources block comes after the
\* if/else of reverse_content_order.
Pipeline == SectionOrder \o <<"failed">>

Groups(sec) ==
    CASE sec = "stats" -> Tagged(report_data.stats)
      [] sec = "rss_stats" -> Tagged(rss_items)
      [] sec = "new" -> Tagged(report_data.new_titles)
      [] sec = "rss_new" -> SourceList(rss_new_items)
      [] OTHER -> <<>>

\* ---------------------------------------------------------------------------
\* The fit check and the placement of one candidate
\* ---------------------------------------------------------------------------
\* Mutant of Fits: the footer is left out of the fit check.
FitsWithoutFooter(batch, candidate) ==
    ByteLen(batch \o candidate) < max_bytes

\* Mutant of Fits: the budget itself counts as fitting.
FitsOrEqual(batch, candidate) ==
    ByteLen(batch \o candidate) + ByteLen(base_footer) <= max_bytes

Fits(batch, candidate) ==
    ByteLen(batch \o candidate) + ByteLen(base_footer) < max_bytes

\* Mutant of Closed: the closed batch is put in front of the earlier ones.
ClosedInFront ==
    IF current_batch_has_content
    THEN <<current_batch \o base_footer>> \o batches
    ELSE batches

\* Mutant of Closed: the batch being closed is never appended.
ClosedLost == batches

\* Mutant of Closed: the closed batch is appended without the footer.
ClosedWithoutFooter ==
    IF current_batch_has_content THEN Append(batches, current_batch) ELSE batches

\* batches after "if current_batch_has_content: batches.append(...)".
Closed ==
    IF current_batch_has_content
    THEN Append(batches, current_batch \o base_footer)
    ELSE batches

\* Mutant of Place: a candidate that does not fit as a whole leaves its first
\* piece (the group header) in the batch being closed when that piece fits.
PlaceSplitting(candidate, context) ==
    /\ IF Fits(current_batch, candidate)
       THEN /\ current_batch' = current_batch \o candidate
            /\ batches' = batches
       ELSE IF Len(candidate) > 1 /\ Fits(current_batch, <<Head(candidate)>>)
       THEN /\ batches' = Append(batches,
                              current_batch \o <<Head(candidate)>> \o base_footer)
            /\ current_batch' = base_header \o context \o Tail(candidate)
       ELSE /\ batches' = Closed
            /\ current_batch' = base_header \o context \o candidate
    /\ current_batch_has_content' = TRUE

\* Mutant of Place: the new batch restarts without the re-entry context.
PlaceWithoutContext(candidate, context) ==
    /\ IF Fits(current_batch, candidate)
       THEN /\ current_batch' = current_batch \o candidate
            /\ batches' = batches
       ELSE /\ batches' = Closed
            /\ current_batch' = base_header \o candidate
    /\ current_batch_has_content' = TRUE

\* Append the candidate when it fits; otherwise close the batch and start a
\* new one with the re-entry context and the candidate, unconditionally.
Place(candidate, context) ==
    /\ IF Fits(current_batch, candidate)
       THEN /\ current_batch' = current_batch \o candidate
            /\ batches' = batches
       ELSE /\ batches' = Closed
            /\ current_batch' = base_header \o context \o candidate
    /\ current_batch_has_content' = TRUE

\* ---------------------------------------------------------------------------
\* Control flow
\* ---------------------------------------------------------------------------
Goto(p, s, g, n) == pc' = p /\ sidx' = s /\ i' = g /\ j' = n

\* A section with nothing to show returns at once (or is not called).
Skipped(sec) ==
    IF sec = "failed" THEN report_data.failed_ids = <<>> ELSE Groups(sec) = <<>>

\* First position of the pipeline at or after k that is processed.
RECURSIVE NextSection(_)
NextSection(k) ==
    IF k > Len(Pipeline) THEN k
    ELSE IF ~Skipped(Pipeline[k]) THEN k ELSE NextSection(k + 1)

GotoSection(k) ==
    LET s == NextSection(k)
    IN  IF s > Len(Pipeline) THEN Goto("final", s, 0, 0)
        ELSE IF Pipeline[s] = "failed" THEN Goto("failed_header", s, 0, 0)
        ELSE Goto("banner", s, 0, 0)

AfterGroup(sec, g) ==
    IF sec \in StatsSections
    THEN IF g < Len(Groups(sec))
         THEN Goto("separator", sidx, g, 0)
         ELSE GotoSection(sidx + 1)
    ELSE Goto("blank", sidx, g, 0)

AfterTitle(sec, g, n) ==
    IF n < Len(Groups(sec)[g].titles)
    THEN Goto("title", sidx, g, n + 1)
    ELSE AfterGroup(sec, g)

\* Mutant of EmptyReport: a report with RSS items does not count as empty.
EmptyReportWithoutRss ==
    /\ report_data.stats = <<>>
    /\ report_data.new_titles = <<>>
    /\ report_data.failed_ids = <<>>
    /\ rss_items = <<>>
    /\ rss_new_items = <<>>

EmptyReport ==
    /\ report_data.stats = <<>>
    /\ report_data.new_titles = <<>>
    /\ report_data.failed_ids = <<>>

\* ---------------------------------------------------------------------------
\* Steps of split_content_into_batches
\* ---------------------------------------------------------------------------
\* The early return of the empty report.
ReturnPlaceholder ==
    /\ pc = "start"
    /\ EmptyReport
    /\ batches' = Append(batches, base_header \o Placeholder \o base_footer)
    /\ Goto("done", 0, 0, 0)
    /\ UNCHANGED <<current_batch, current_batch_has_content,
                 inputs, dispatcher_vars, caller_vars, run_vars>>

\* Enter the section pipeline in the configured order.
Begin ==
    /\ pc = "start"
    /\ ~EmptyReport
    /\ GotoSection(1)
    /\ UNCHANGED <<batches, current_batch, current_batch_has_content,
                 inputs, dispatcher_vars, caller_vars, run_vars>>

\* The banner of a section.
PlaceBanner ==
    /\ pc = "banner"
    /\ LET sec == Pipeline[sidx]
       IN  /\ Place(SectionBanner(sec), <<>>)
           /\ Goto("unit", sidx, 1, 0)
    /\ UNCHANGED <<inputs, dispatcher_vars, caller_vars, run_vars>>

\* The entry handed to format_title_for_platform: the entry itself in the
\* stats sections, a copy with is_new forced false in the new-items sections.
Shown(sec, title) ==
    IF sec \in NewSections THEN title_data_copy(title) ELSE title

\* Group header + first title: one atomic unit.
PlaceUnit ==
    /\ pc = "unit"
    /\ LET sec == Pipeline[sidx]
           titles == Groups(sec)[i].titles
           first == IF titles = <<>> THEN <<>>
                    ELSE TitleLine(sec, i, 1, Shown(sec, titles[1]),
                                   Len(titles) = 1)
       IN  /\ Place(GroupHeader(sec, i) \o first, SectionBanner(sec))
           /\ AfterTitle(sec, i, IF titles = <<>> THEN 0 ELSE 1)
    /\ UNCHANGED <<inputs, dispatcher_vars, caller_vars, run_vars>>

\* Mutant of PlaceTitle: the new batch of a remaining title restarts under the
\* section banner only, without the group header.
PlaceTitleUnderBanner ==
    /\ pc = "title"
    /\ LET sec == Pipeline[sidx]
           titles == Groups(sec)[i].titles
       IN  /\ Place(TitleLine(sec, i, j, Shown(sec, titles[j]),
                              j = Len(titles)),
                    SectionBanner(sec))
           /\ AfterTitle(sec, i, j)
    /\ UNCHANGED <<inputs, dispatcher_vars, caller_vars, run_vars>>

\* Mutant of PlaceTitle: in the new-items sections is_new is forced false on
\* the entry itself, not on a copy.
PlaceTitleInPlace ==
    /\ pc = "title"
    /\ LET sec == Pipeline[sidx]
           titles == Groups(sec)[i].titles
           g == titles[j].orig[1]
           n == titles[j].orig[2]
       IN  /\ Place(TitleLine(sec, i, j, Shown(sec, titles[j]),
                              j = Len(titles)),
                    SectionBanner(sec) \o GroupHeader(sec, i))
           /\ AfterTitle(sec, i, j)
           /\ report_data' =
                 IF sec = "new"
                 THEN [report_data EXCEPT
                          !.new_titles[g].titles[n].is_new = FALSE]
                 ELSE report_data
           /\ rss_new_items' =
                 IF sec = "rss_new"
                 THEN [rss_new_items EXCEPT ![g].titles[n].is_new = FALSE]
                 ELSE rss_new_items
    /\ UNCHANGED <<format_type, update_info, max_bytes, mode,
                   reverse_content_order, rss_items, now, dispatcher_vars,
                   caller_vars, run_vars>>

\* A remaining title of the group.
PlaceTitle ==
    /\ pc = "title"
    /\ LET sec == Pipeline[sidx]
           titles == Groups(sec)[i].titles
       IN  /\ Place(TitleLine(sec, i, j, Shown(sec, titles[j]),
                              j = Len(titles)),
                    SectionBanner(sec) \o GroupHeader(sec, i))
           /\ AfterTitle(sec, i, j)
    /\ UNCHANGED <<inputs, dispatcher_vars, caller_vars, run_vars>>

\* Mutant of PlaceSeparator: the separator is placed like a title line, closing
\* the batch when it does not fit.
PlaceSeparatorClosing ==
    /\ pc = "separator"
    /\ LET sec == Pipeline[sidx]
       IN  Place(Separator(sec, i), SectionBanner(sec))
    /\ Goto("unit", sidx, i + 1, 0)
    /\ UNCHANGED <<inputs, dispatcher_vars, caller_vars, run_vars>>

\* The separator between two keyword groups: appended only if it fits.
PlaceSeparator ==
    /\ pc = "separator"
    /\ LET sec == Pipeline[sidx]
       IN  current_batch' =
               IF Fits(current_batch, Separator(sec, i))
               THEN current_batch \o Separator(sec, i)
               ELSE current_batch
    /\ Goto("unit", sidx, i + 1, 0)
    /\ UNCHANGED <<batches, current_batch_has_content,
                 inputs, dispatcher_vars, caller_vars, run_vars>>

\* The blank line after a source group: appended without a fit check.
PlaceBlankLine ==
    /\ pc = "blank"
    /\ LET sec == Pipeline[sidx]
       IN  /\ current_batch' = current_batch \o BlankLine(sec, i)
           /\ IF i < Len(Groups(sec))
              THEN Goto("unit", sidx, i + 1, 0)
              ELSE GotoSection(sidx + 1)
    /\ UNCHANGED <<batches, current_batch_has_content,
                 inputs, dispatcher_vars, caller_vars, run_vars>>

\* The banner of the failed-sources section.
PlaceFailedHeader ==
    /\ pc = "failed_header"
    /\ Place(SectionBanner("failed"), <<>>)
    /\ Goto("failed_line", sidx, 0, 1)
    /\ UNCHANGED <<inputs, dispatcher_vars, caller_vars, run_vars>>

PlaceFailedLine ==
    /\ pc = "failed_line"
    /\ Place(FailedLine(j), SectionBanner("failed"))
    /\ IF j < Len(report_data.failed_ids)
       THEN Goto("failed_line", sidx, 0, j + 1)
       ELSE GotoSection(sidx + 1)
    /\ UNCHANGED <<inputs, dispatcher_vars, caller_vars, run_vars>>

\* Close the last batch and return.
Finalize ==
    /\ pc = "final"
    /\ batches' = Closed
    /\ Goto("done", 0, 0, 0)
    /\ UNCHANGED <<current_batch, current_batch_has_content,
                 inputs, dispatcher_vars, caller_vars, run_vars>>

\* ---------------------------------------------------------------------------
\* Account configuration strings (trendradar.core.config)
\* ---------------------------------------------------------------------------
\* A configuration string is a sequence of atoms: ";" is the separator, " " is
\* white space, any other atom is a run of text without either.

\* Mutant of ChannelOrder: the channel blocks in another order.
ChannelOrderSlackFirst ==
    <<"slack", "feishu", "dingtalk", "wework", "telegram", "ntfy", "bark",
      "email">>

\* The channel blocks of dispatch_all and dispatch_rss, in source order.
ChannelOrder ==
    <<"feishu", "dingtalk", "wework", "telegram", "ntfy", "bark", "slack",
      "email">>

SimpleChannels == {"feishu", "dingtalk", "wework", "bark", "slack"}

\* The configuration key holding the account list of a channel.
AccountKey(c) ==
    CASE c = "feishu" -> "FEISHU_WEBHOOK_URL"
      [] c = "dingtalk" -> "DINGTALK_WEBHOOK_URL"
      [] c = "wework" -> "WEWORK_WEBHOOK_URL"
      [] c = "telegram" -> "TELEGRAM_BOT_TOKEN"
      [] c = "ntfy" -> "NTFY_TOPIC"
      [] c = "bark" -> "BARK_URL"
      [] c = "slack" -> "SLACK_WEBHOOK_URL"
      [] c = "email" -> "EMAIL_TO"

ListKeys ==
    <<"FEISHU_WEBHOOK_URL", "DINGTALK_WEBHOOK_URL", "WEWORK_WEBHOOK_URL",
      "TELEGRAM_BOT_TOKEN", "TELEGRAM_CHAT_ID", "NTFY_TOPIC", "NTFY_TOKEN",
      "BARK_URL", "SLACK_WEBHOOK_URL">>

ScalarKeys == <<"NTFY_SERVER_URL", "EMAIL_FROM", "EMAIL_PASSWORD", "EMAIL_TO">>

ConfigKeys == ListKeys \o ScalarKeys

\* str.split(";")
RECURSIVE Split(_, _)
Split(raw, segment) ==
    IF raw = <<>> THEN <<segment>>
    ELSE IF Head(raw) = ";" THEN <<segment>> \o Split(Tail(raw), <<>>)
    ELSE Split(Tail(raw), Append(segment, Head(raw)))

\* str.strip()
RECURSIVE LStrip(_)
LStrip(s) == IF s # <<>> /\ Head(s) = " " THEN LStrip(Tail(s)) ELSE s

RECURSIVE RStrip(_)
RStrip(s) ==
    IF s # <<>> /\ s[Len(s)] = " " THEN RStrip(SubSeq(s, 1, Len(s) - 1)) ELSE s

Strip(s) == RStrip(LStrip(s))

NonEmpty(s) == s # <<>>

\* split on ";", trim each token, discard empty tokens, preserve order
parse_multi_account_config(config_value) ==
    LET tokens == Split(config_value, <<>>)
    IN  SelectSeq([n \in 1..Len(tokens) |-> Strip(tokens[n])], NonEmpty)

\* truncate to the first `limit` entries when there are more
limit_accounts(account_list, limit) ==
    IF Len(account_list) > limit THEN SubSeq(account_list, 1, limit)
    ELSE account_list

\* valid iff the two required lists have the same length > 0
validate_paired_configs(first, second) ==
    IF Len(first) = Len(second) /\ Len(first) > 0
    THEN [valid |-> TRUE, count |-> Len(first)]
    ELSE [valid |-> FALSE, count |-> 0]

\* the entry at position index, or the default when there is none
get_account_at_index(account_list, index, default) ==
    IF index <= Len(account_list) /\ account_list[index] # <<>>
    THEN account_list[index] ELSE default

\* ---------------------------------------------------------------------------
\* NotificationDispatcher: gating and account resolution
\* ---------------------------------------------------------------------------
Truthy(key) == config[key] # <<>>

\* Mutant of Configured: one of the settings of a channel is enough.
ConfiguredByAnyKey(c) ==
    CASE c \in SimpleChannels -> Truthy(AccountKey(c))
      [] c = "telegram" ->
            Truthy("TELEGRAM_BOT_TOKEN") \/ Truthy("TELEGRAM_CHAT_ID")
      [] c = "ntfy" -> Truthy("NTFY_SERVER_URL") \/ Truthy("NTFY_TOPIC")
      [] c = "email" ->
            Truthy("EMAIL_FROM") \/ Truthy("EMAIL_PASSWORD")
                \/ Truthy("EMAIL_TO")

\* The `if self.config.get(...)` in front of each channel.
Configured(c) ==
    CASE c \in SimpleChannels -> Truthy(AccountKey(c))
      [] c = "telegram" ->
            Truthy("TELEGRAM_BOT_TOKEN") /\ Truthy("TELEGRAM_CHAT_ID")
      [] c = "ntfy" -> Truthy("NTFY_SERVER_URL") /\ Truthy("NTFY_TOPIC")
      [] c = "email" ->
            Truthy("EMAIL_FROM") /\ Truthy("EMAIL_PASSWORD")
                /\ Truthy("EMAIL_TO")

\* Outcome of the code in front of the account loop: the early `return False`,
\* or the lists the loop runs over and its number of iterations.
Rejected == [ok |-> FALSE, accounts |-> <<>>, partners |-> <<>>, count |-> 0]

Accepted(list, paired, n) ==
    [ok |-> TRUE, accounts |-> list, partners |-> paired, count |-> n]

Min(a, b) == IF a < b THEN a ELSE b

\* Mutant of ResolveMultiAccounts: the account list is not capped.
ResolveMultiAccountsUncapped(c) ==
    LET parsed == parse_multi_account_config(config[AccountKey(c)])
    IN  IF parsed = <<>> THEN Rejected ELSE Accepted(parsed, <<>>, Len(parsed))

\* Mutant of ResolveMultiAccounts: the raw string is used
\* as one account.
ResolveUnparsed(c) ==
    IF config[AccountKey(c)] = <<>> THEN Rejected
    ELSE Accepted(<<config[AccountKey(c)]>>, <<>>, 1)

\* _send_to_multi_accounts
ResolveMultiAccounts(c) ==
    LET parsed == parse_multi_account_config(config[AccountKey(c)])
        kept == limit_accounts(parsed, max_accounts)
    IN  IF parsed = <<>> THEN Rejected ELSE Accepted(kept, <<>>, Len(kept))

\* Mutant of ResolveTelegram: the lists are capped first and validated after.
ResolveTelegramCappedFirst ==
    LET telegram_tokens ==
            limit_accounts(
                parse_multi_account_config(config["TELEGRAM_BOT_TOKEN"]),
                max_accounts)
        telegram_chat_ids ==
            limit_accounts(
                parse_multi_account_config(config["TELEGRAM_CHAT_ID"]),
                max_accounts)
        checked == validate_paired_configs(telegram_tokens, telegram_chat_ids)
    IN  IF telegram_tokens = <<>> \/ telegram_chat_ids = <<>> THEN Rejected
        ELSE IF ~checked.valid \/ checked.count = 0 THEN Rejected
        ELSE Accepted(telegram_tokens, telegram_chat_ids,
                      Len(telegram_tokens))

\* _send_telegram
ResolveTelegram ==
    LET telegram_tokens == parse_multi_account_config(config["TELEGRAM_BOT_TOKEN"])
        telegram_chat_ids == parse_multi_account_config(config["TELEGRAM_CHAT_ID"])
        checked == validate_paired_configs(telegram_tokens, telegram_chat_ids)
        kept == limit_accounts(telegram_tokens, max_accounts)
    IN  IF telegram_tokens = <<>> \/ telegram_chat_ids = <<>> THEN Rejected
        ELSE IF ~checked.valid \/ checked.count = 0 THEN Rejected
        ELSE Accepted(kept,
                      SubSeq(telegram_chat_ids, 1,
                             Min(Len(kept), Len(telegram_chat_ids))),
                      Len(kept))

\* Mutant of ResolveNtfy: a token is required for every topic.
ResolveNtfyTokenRequired ==
    LET ntfy_topics == parse_multi_account_config(config["NTFY_TOPIC"])
        ntfy_tokens == parse_multi_account_config(config["NTFY_TOKEN"])
        kept == limit_accounts(ntfy_topics, max_accounts)
    IN  IF ~Truthy("NTFY_SERVER_URL") \/ ntfy_topics = <<>> THEN Rejected
        ELSE IF Len(ntfy_tokens) # Len(ntfy_topics) THEN Rejected
        ELSE Accepted(kept,
                      SubSeq(ntfy_tokens, 1, Min(Len(kept), Len(ntfy_tokens))),
                      Len(kept))

\* _send_ntfy
ResolveNtfy ==
    LET ntfy_topics == parse_multi_account_config(config["NTFY_TOPIC"])
        ntfy_tokens == parse_multi_account_config(config["NTFY_TOKEN"])
        kept == limit_accounts(ntfy_topics, max_accounts)
    IN  IF ~Truthy("NTFY_SERVER_URL") \/ ntfy_topics = <<>> THEN Rejected
        ELSE IF ntfy_tokens # <<>> /\ Len(ntfy_tokens) # Len(ntfy_topics)
        THEN Rejected
        ELSE Accepted(kept,
                      SubSeq(ntfy_tokens, 1, Min(Len(kept), Len(ntfy_tokens))),
                      Len(kept))

\* _send_rss_feishu, _send_rss_dingtalk, _send_rss_wework, _send_rss_bark,
\* _send_rss_slack
ResolveRssWebhooks(c) ==
    LET webhooks == limit_accounts(
                        parse_multi_account_config(config[AccountKey(c)]),
                        max_accounts)
    IN  Accepted(webhooks, <<>>, Len(webhooks))

\* _send_rss_telegram
ResolveRssTelegram ==
    LET tokens == parse_multi_account_config(config["TELEGRAM_BOT_TOKEN"])
        chat_ids == parse_multi_account_config(config["TELEGRAM_CHAT_ID"])
    IN  IF tokens = <<>> \/ chat_ids = <<>> THEN Rejected
        ELSE Accepted(tokens, chat_ids,
                      Min(Min(Len(tokens), Len(chat_ids)), max_accounts))

\* _send_rss_ntfy
ResolveRssNtfy ==
    LET topics == parse_multi_account_config(config["NTFY_TOPIC"])
        tokens == parse_multi_account_config(config["NTFY_TOKEN"])
        kept == limit_accounts(topics, max_accounts)
    IN  IF ~Truthy("NTFY_SERVER_URL") \/ topics = <<>> THEN Rejected
        ELSE Accepted(kept, tokens, Len(kept))

Resolve(c) ==
    IF call = "dispatch_all"
    THEN CASE c \in SimpleChannels -> ResolveMultiAccounts(c)
           [] c = "telegram" -> ResolveTelegram
           [] c = "ntfy" -> ResolveNtfy
    ELSE CASE c \in SimpleChannels -> ResolveRssWebhooks(c)
           [] c = "telegram" -> ResolveRssTelegram
           [] c = "ntfy" -> ResolveRssNtfy

\* Mutant of PartnerAt: every account is sent with the first paired credential.
PartnerFirst(k) ==
    IF partners = <<>> THEN <<>> ELSE partners[1]

\* The credential used together with accounts[k]: the chat id of a Telegram
\* token, the token of an ntfy topic ("" when there is none).
PartnerAt(k) ==
    IF ChannelOrder[ch] = "telegram" THEN partners[k]
    ELSE IF partners = <<>> THEN <<>>
    ELSE get_account_at_index(partners, k, <<>>)

\* `if account:`, `if token and chat_id:`, `if not webhook_url: continue`
Usable(k) ==
    /\ accounts[k] # <<>>
    /\ ChannelOrder[ch] = "telegram" => partners[k] # <<>>

\* f"账号{i+1}" if len(accounts) > 1 else ""
account_label(k) ==
    IF Len(accounts) > 1 THEN "account" \o ToString(k) ELSE ""

\* Mutant of AnyResult: every account has to succeed.
AllResults(rs) == rs # <<>> /\ \A n \in 1..Len(rs) : rs[n]

\* any(results) if results else False
AnyResult(rs) == IF rs # <<>> THEN \E n \in 1..Len(rs) : rs[n] ELSE FALSE

\* results[channel] = value
Put(mapping, key, value) ==
    [x \in DOMAIN mapping \cup {key} |->
        IF x = key THEN value ELSE mapping[x]]

Attempt(k, ok) ==
    [channel |-> ChannelOrder[ch], index |-> k, account |-> accounts[k],
     partner |-> PartnerAt(k), label |-> account_label(k), result |-> ok]

\* The sends of a call without their outcomes: channel, position, account,
\* paired credential and label of each send, in order.
Targets(made) ==
    [n \in 1..Len(made) |->
        [channel |-> made[n].channel, index |-> made[n].index,
         account |-> made[n].account, partner |-> made[n].partner,
         label |-> made[n].label]]

\* ---------------------------------------------------------------------------
\* Steps of dispatch_all and dispatch_rss
\* ---------------------------------------------------------------------------
\* Position of the first channel at or after k whose `if self.config.get(...)`
\* holds; a channel without its minimum configuration gets no entry.
RECURSIVE NextConfigured(_)
NextConfigured(k) ==
    IF k > Len(ChannelOrder) THEN k
    ELSE IF Configured(ChannelOrder[k]) THEN k ELSE NextConfigured(k + 1)

NextChannel == ch' = NextConfigured(ch + 1) /\ dpc' = "channel"

NextAccount == account_idx' = account_idx + 1 /\ dpc' = "account"

\* Record the end of the attempt of account k.
Completed(k, ok) ==
    /\ account_results' = Append(account_results, ok)
    /\ attempts' = Append(attempts, Attempt(k, ok))
    /\ previous' = previous

CallDispatchAll ==
    /\ dpc = "idle"
    /\ call' = "dispatch_all"
    /\ results' = <<>>
    /\ ch' = NextConfigured(1)
    /\ dpc' = "channel"
    /\ UNCHANGED <<fields, loop_vars, batch_vars, history, splitter_vars,
                 caller_vars, run_vars>>

\* dispatch_all called again on the same dispatcher after it has returned:
\* `results = {}` is a fresh local, self.config and self.max_accounts are
\* the only state read.
CallDispatchAllAgain ==
    /\ dpc = "returned"
    /\ call = "dispatch_all"
    /\ previous.calls + 1 < MaxCalls
    /\ previous' = [calls |-> previous.calls + 1,
                    targets |-> Targets(attempts), results |-> results]
    /\ attempts' = <<>>
    /\ results' = <<>>
    /\ ch' = NextConfigured(1)
    /\ dpc' = "channel"
    /\ UNCHANGED <<fields, call, loop_vars, batch_vars, splitter_vars,
                   caller_vars, run_vars>>

\* dispatch_rss returns {} at once when there are no items.
CallDispatchRss ==
    /\ dpc = "idle"
    /\ call' = "dispatch_rss"
    /\ results' = <<>>
    /\ \E has_items \in BOOLEAN :
          IF has_items THEN ch' = NextConfigured(1) /\ dpc' = "channel"
          ELSE ch' = 0 /\ dpc' = "returned"
    /\ UNCHANGED <<fields, loop_vars, batch_vars, history, splitter_vars,
                 caller_vars, run_vars>>

\* Mutant of RejectChannel: a channel whose send function returns in front of
\* its account loop gets no entry.
RejectChannelOmitting ==
    /\ dpc = "channel"
    /\ ch <= Len(ChannelOrder)
    /\ Configured(ChannelOrder[ch])
    /\ ChannelOrder[ch] # "email"
    /\ ~Resolve(ChannelOrder[ch]).ok
    /\ NextChannel
    /\ UNCHANGED <<fields, call, results, loop_vars, batch_vars, history,
                   splitter_vars, caller_vars, run_vars>>

\* The channel's send function returns False in front of its account loop.
RejectChannel ==
    /\ dpc = "channel"
    /\ ch <= Len(ChannelOrder)
    /\ Configured(ChannelOrder[ch])
    /\ ChannelOrder[ch] # "email"
    /\ ~Resolve(ChannelOrder[ch]).ok
    /\ results' = Put(results, ChannelOrder[ch], FALSE)
    /\ NextChannel
    /\ UNCHANGED <<fields, call, loop_vars, batch_vars, history,
                   splitter_vars, caller_vars, run_vars>>

\* Enter the account loop of the channel.
StartChannel ==
    /\ dpc = "channel"
    /\ ch <= Len(ChannelOrder)
    /\ Configured(ChannelOrder[ch])
    /\ ChannelOrder[ch] # "email"
    /\ LET resolved == Resolve(ChannelOrder[ch])
       IN  /\ resolved.ok
           /\ accounts' = resolved.accounts
           /\ partners' = resolved.partners
           /\ loop_len' = resolved.count
    /\ account_idx' = 1
    /\ account_results' = <<>>
    /\ dpc' = "account"
    /\ UNCHANGED <<fields, call, results, ch, batch_vars, history,
                   splitter_vars, caller_vars, run_vars>>

\* Mutant of SendAccount: a channel that the call before this one has
\* notified successfully is not sent to again.
SendAccountOnce ==
    /\ dpc = "account"
    /\ call = "dispatch_all"
    /\ account_idx <= loop_len
    /\ IF /\ Usable(account_idx)
          /\ ~(/\ ChannelOrder[ch] \in DOMAIN previous.results
               /\ previous.results[ChannelOrder[ch]])
       THEN \E result \in BOOLEAN : Completed(account_idx, result)
       ELSE UNCHANGED <<account_results, history>>
    /\ NextAccount
    /\ UNCHANGED <<fields, call, results, ch, accounts, partners, loop_len,
                   batch_vars, splitter_vars, caller_vars, run_vars>>

\* Mutant of SendAccount: the loop stops at the first account that succeeds.
SendAccountUntilSuccess ==
    /\ dpc = "account"
    /\ call = "dispatch_all"
    /\ account_idx <= loop_len
    /\ \E result \in BOOLEAN :
          /\ Completed(account_idx, result)
          /\ account_idx' = IF result THEN loop_len + 1 ELSE account_idx + 1
    /\ dpc' = "account"
    /\ UNCHANGED <<fields, call, results, ch, accounts, partners, loop_len,
                   batch_vars, splitter_vars, caller_vars, run_vars>>

\* dispatch_all: one call of the channel's sender for one account.
SendAccount ==
    /\ dpc = "account"
    /\ call = "dispatch_all"
    /\ account_idx <= loop_len
    /\ IF Usable(account_idx)
       THEN \E result \in BOOLEAN : Completed(account_idx, result)
       ELSE UNCHANGED <<account_results, history>>
    /\ NextAccount
    /\ UNCHANGED <<fields, call, results, ch, accounts, partners, loop_len,
                   batch_vars, splitter_vars, caller_vars, run_vars>>

\* Mutant of SplitContent: no try around split_content_func, so its exception
\* leaves dispatch_rss.
SplitContentUncaught ==
    /\ dpc = "account"
    /\ call = "dispatch_rss"
    /\ account_idx <= loop_len
    /\ IF Usable(account_idx)
       THEN \E raised \in BOOLEAN :
               IF raised
               THEN /\ dpc' = "raised"
                    /\ UNCHANGED <<account_idx, account_results, history,
                                   batch_vars>>
               ELSE /\ rss_batches' \in 1..MaxBatches
                    /\ batch_idx' = 1
                    /\ dpc' = "batch"
                    /\ UNCHANGED <<account_idx, account_results, history,
                                   resp>>
       ELSE NextAccount /\ UNCHANGED <<account_results, history, batch_vars>>
    /\ UNCHANGED <<fields, call, results, ch, accounts, partners, loop_len,
                   splitter_vars, caller_vars, run_vars>>

\* dispatch_rss: split_content_func for one account; it returns the batches or
\* raises, and a raise is caught as the account's failure.
SplitContent ==
    /\ dpc = "account"
    /\ call = "dispatch_rss"
    /\ account_idx <= loop_len
    /\ IF Usable(account_idx)
       THEN \E raised \in BOOLEAN :
               IF raised
               THEN /\ Completed(account_idx, FALSE)
                    /\ NextAccount
                    /\ UNCHANGED batch_vars
               ELSE /\ rss_batches' \in 1..MaxBatches
                    /\ batch_idx' = 1
                    /\ dpc' = "batch"
                    /\ UNCHANGED <<account_idx, account_results, history,
                                   resp>>
       ELSE NextAccount /\ UNCHANGED <<account_results, history, batch_vars>>
    /\ UNCHANGED <<fields, call, results, ch, accounts, partners, loop_len,
                   splitter_vars, caller_vars, run_vars>>

\* The try block of the account is left: its locals are dead.
EndBatches == rss_batches' = 0 /\ batch_idx' = 0 /\ resp' = "none"

\* dispatch_rss: requests.post for one batch; it returns a response or raises
\* (connection error, timeout), and a raise is caught as the account's
\* failure.
PostBatch ==
    /\ dpc = "batch"
    /\ \E raised \in BOOLEAN :
          IF raised
          THEN /\ Completed(account_idx, FALSE)
               /\ NextAccount
               /\ EndBatches
          ELSE /\ resp' \in {"success", "failure"}
               /\ dpc' = "response"
               /\ UNCHANGED <<account_idx, account_results, history,
                              rss_batches, batch_idx>>
    /\ UNCHANGED <<fields, call, results, ch, accounts, partners, loop_len,
                   splitter_vars, caller_vars, run_vars>>

\* Mutant of RaiseForStatus: the status of the response is not looked at.
StatusIgnored ==
    /\ dpc = "response"
    /\ IF batch_idx < rss_batches
       THEN /\ batch_idx' = batch_idx + 1
            /\ resp' = "none"
            /\ dpc' = "batch"
            /\ UNCHANGED <<account_idx, account_results, history,
                           rss_batches>>
       ELSE /\ Completed(account_idx, TRUE)
            /\ NextAccount
            /\ EndBatches
    /\ UNCHANGED <<fields, call, results, ch, accounts, partners, loop_len,
                   splitter_vars, caller_vars, run_vars>>

\* dispatch_rss: resp.raise_for_status(); a status that is not a success
\* raises and ends the account's batches, the last batch's success ends them
\* with True.
RaiseForStatus ==
    /\ dpc = "response"
    /\ IF resp = "success" /\ batch_idx < rss_batches
       THEN /\ batch_idx' = batch_idx + 1
            /\ resp' = "none"
            /\ dpc' = "batch"
            /\ UNCHANGED <<account_idx, account_results, history,
                           rss_batches>>
       ELSE /\ Completed(account_idx, resp = "success")
            /\ NextAccount
            /\ EndBatches
    /\ UNCHANGED <<fields, call, results, ch, accounts, partners, loop_len,
                   splitter_vars, caller_vars, run_vars>>

\* The account loop is over: the channel's entry is written.
FinishChannel ==
    /\ dpc = "account"
    /\ account_idx > loop_len
    /\ results' = Put(results, ChannelOrder[ch], AnyResult(account_results))
    /\ NextChannel
    /\ UNCHANGED <<fields, call, loop_vars, batch_vars, history,
                   splitter_vars, caller_vars, run_vars>>

\* _send_email: one call of send_to_email, no account loop.
SendEmail ==
    /\ dpc = "channel"
    /\ ch <= Len(ChannelOrder)
    /\ ChannelOrder[ch] = "email"
    /\ Configured("email")
    /\ \E result \in BOOLEAN : results' = Put(results, "email", result)
    /\ NextChannel
    /\ UNCHANGED <<fields, call, loop_vars, batch_vars, history,
                   splitter_vars, caller_vars, run_vars>>

\* return results
Return ==
    /\ dpc = "channel"
    /\ ch > Len(ChannelOrder)
    /\ dpc' = "returned"
    /\ UNCHANGED <<fields, call, results, ch, loop_vars, batch_vars, history,
                   splitter_vars, caller_vars, run_vars>>

\* ---------------------------------------------------------------------------
\* NewsAnalyzer._send_notification_if_needed (__main__.py)
\* ---------------------------------------------------------------------------
\* _has_notification_configured: any channel with its settings present.
has_notification ==
    \E n \in 1..Len(ChannelOrder) : Configured(ChannelOrder[n])

\* return <value>
ReturnFromGate(value) == gpc' = "done" /\ returned' = value

\* The first branch: notifications enabled, a channel configured, content.
CheckNotification ==
    /\ gpc = "enter"
    /\ IF cfg.ENABLE_NOTIFICATION /\ has_notification /\ has_any_content
       THEN gpc' = "window" /\ returned' = returned
       ELSE ReturnFromGate(FALSE)
    /\ UNCHANGED <<cfg, has_any_content, in_time_range, push_record,
                   runs, pushed, splitter_vars, dispatcher_vars, run_vars>>

\* Mutant of CheckPushWindow: the push record is not consulted.
CheckPushWindowTimeOnly ==
    /\ gpc = "window"
    /\ IF cfg.PUSH_WINDOW_ENABLED /\ ~in_time_range
       THEN ReturnFromGate(FALSE)
       ELSE gpc' = "dispatch" /\ returned' = returned
    /\ UNCHANGED <<cfg, has_any_content, in_time_range, push_record,
                   runs, pushed, splitter_vars, dispatcher_vars, run_vars>>

\* Push window control: the time range, then the push record of today.
CheckPushWindow ==
    /\ gpc = "window"
    /\ IF cfg.PUSH_WINDOW_ENABLED
       THEN IF ~in_time_range THEN ReturnFromGate(FALSE)
            ELSE IF cfg.ONCE_PER_DAY /\ push_record
                 THEN ReturnFromGate(FALSE)
                 ELSE gpc' = "dispatch" /\ returned' = returned
       ELSE gpc' = "dispatch" /\ returned' = returned
    /\ UNCHANGED <<cfg, has_any_content, in_time_range, push_record,
                   runs, pushed, splitter_vars, dispatcher_vars, run_vars>>

\* results = dispatcher.dispatch_all(...)
DispatchFromGate ==
    /\ gpc = "dispatch"
    /\ CallDispatchAll

\* Mutant of RecordPush: every dispatch that returned a mapping is recorded,
\* whether or not a channel succeeded.
RecordPushAlways ==
    /\ gpc = "dispatch"
    /\ dpc = "returned"
    /\ IF results = <<>>
       THEN ReturnFromGate(FALSE) /\ push_record' = push_record
       ELSE /\ push_record' =
                  IF cfg.PUSH_WINDOW_ENABLED /\ cfg.ONCE_PER_DAY
                  THEN TRUE ELSE push_record
            /\ ReturnFromGate(TRUE)
    /\ pushed' = IF \E c \in DOMAIN results : results[c]
                 THEN pushed + 1 ELSE pushed
    /\ UNCHANGED <<cfg, has_any_content, in_time_range, runs, splitter_vars,
                   dispatcher_vars, run_vars>>

\* After dispatch_all: an empty mapping returns False; a success is recorded
\* when the window and once-per-day are enabled; return True.
RecordPush ==
    /\ gpc = "dispatch"
    /\ dpc = "returned"
    /\ IF results = <<>>
       THEN ReturnFromGate(FALSE) /\ push_record' = push_record
       ELSE /\ push_record' =
                  IF /\ cfg.PUSH_WINDOW_ENABLED
                     /\ cfg.ONCE_PER_DAY
                     /\ \E c \in DOMAIN results : results[c]
                  THEN TRUE ELSE push_record
            /\ ReturnFromGate(TRUE)
    /\ pushed' = IF \E c \in DOMAIN results : results[c]
                 THEN pushed + 1 ELSE pushed
    /\ UNCHANGED <<cfg, has_any_content, in_time_range, runs, splitter_vars,
                   dispatcher_vars, run_vars>>

\* ---------------------------------------------------------------------------
\* Configurations
\* ---------------------------------------------------------------------------
\* Names of the credentials of a key: bot tokens t1, t2, ..., chat ids c1, ...,
\* topics p1, ..., ntfy tokens k1, ..., webhook and push urls u1, ...
Prefix(key) ==
    CASE key = "TELEGRAM_BOT_TOKEN" -> "t"
      [] key = "TELEGRAM_CHAT_ID" -> "c"
      [] key = "NTFY_TOPIC" -> "p"
      [] key = "NTFY_TOKEN" -> "k"
      [] OTHER -> "u"

RECURSIVE Joined(_, _)
Joined(prefix, n) ==
    IF n = 1 THEN <<prefix \o ToString(1)>>
    ELSE Joined(prefix, n - 1) \o <<";", prefix \o ToString(n)>>

\* One credential surrounded by white space and empty tokens.
Padded(prefix) == <<" ", prefix \o ToString(1), " ", ";", ";">>

\* Credentials a configuration string stands for: one for every two atoms.
Cost(raw) == (Len(raw) + 1) \div 2

IsListKey(key) == \E n \in 1..Len(ListKeys) : ListKeys[n] = key

RawValues(key, budget) ==
    LET all == IF IsListKey(key)
               THEN {<<>>, <<";">>, Padded(Prefix(key))}
                        \cup {Joined(Prefix(key), n) : n \in 1..MaxCredentials}
               ELSE {<<>>, <<"set">>}
    IN  {raw \in all : Cost(raw) <= budget}

\* Values of the keys ConfigKeys[k..] standing for at most `budget` credentials.
RECURSIVE ConfigValues(_, _)
ConfigValues(k, budget) ==
    IF k > Len(ConfigKeys) THEN {<<>>}
    ELSE UNION {{<<raw>> \o rest :
                    rest \in ConfigValues(k + 1, budget - Cost(raw))} :
                raw \in RawValues(ConfigKeys[k], budget)}

KeyIndex(key) == CHOOSE n \in 1..Len(ConfigKeys) : ConfigKeys[n] = key

Configs ==
    {[key \in {ConfigKeys[n] : n \in 1..Len(ConfigKeys)} |->
         values[KeyIndex(key)]] : values \in ConfigValues(1, MaxCredentials)}

\* self.max_accounts = config.get("MAX_ACCOUNTS_PER_CHANNEL", 3)
MaxAccountsOf(setting) ==
    IF setting = <<>> THEN DefaultMaxAccounts ELSE setting[1]

NoConfig == [key \in {ConfigKeys[n] : n \in 1..Len(ConfigKeys)} |-> <<>>]

\* No call has returned yet.
NoPrevious == [calls |-> 0, targets |-> <<>>, results |-> <<>>]

\* The dispatcher before any call.
DispatcherIdle ==
    /\ call = "none"
    /\ results = <<>>
    /\ ch = 0
    /\ accounts = <<>> /\ partners = <<>> /\ loop_len = 0
    /\ account_idx = 0 /\ account_results = <<>>
    /\ rss_batches = 0 /\ batch_idx = 0 /\ resp = "none"
    /\ attempts = <<>>
    /\ previous = NoPrevious
    /\ dpc = "idle"

\* No run of NewsAnalyzer in progress.
RunIdle ==
    /\ report_mode = "daily"
    /\ stats_matched = FALSE /\ new_found = FALSE /\ rss_found = FALSE
    /\ rpc = "idle"
    /\ exc = "none"
    /\ cleanups = 0
    /\ current_version = <<>>
    /\ response = [ok |-> FALSE, text |-> <<>>]
    /\ vpc = "idle"
    /\ update = [need_update |-> FALSE, remote_version |-> <<"None">>]

\* No run of _send_notification_if_needed in progress.
CallerIdle ==
    /\ cfg = [ENABLE_NOTIFICATION |-> FALSE, PUSH_WINDOW_ENABLED |-> FALSE,
              ONCE_PER_DAY |-> FALSE]
    /\ has_any_content = FALSE
    /\ in_time_range = TRUE
    /\ push_record = FALSE
    /\ gpc = "idle"
    /\ returned = FALSE
    /\ runs = 0 /\ pushed = 0
    /\ RunIdle

\* No segmentation in progress.
SplitterIdle ==
    /\ report_data = [stats |-> <<>>, new_titles |-> <<>>, failed_ids |-> <<>>]
    /\ rss_items = <<>> /\ rss_new_items = <<>>
    /\ format_type = "feishu"
    /\ update_info = FALSE
    /\ max_bytes = HugeMaxBytes
    /\ mode = "daily"
    /\ reverse_content_order = FALSE
    /\ now = 0
    /\ batches = <<>>
    /\ current_batch = <<>>
    /\ current_batch_has_content = FALSE
    /\ pc = "idle" /\ sidx = 0 /\ i = 0 /\ j = 0

\* ---------------------------------------------------------------------------
\* Inputs
\* ---------------------------------------------------------------------------
\* Title lists of one group: the report builder hands over only groups that
\* have at least one title.
TitleSeqs(names, flags, most) ==
    UNION {[1..n -> [len : TitleLens, source_name : names, is_new : flags]] :
              n \in 1..most}

\* Group lists of at most `groups` groups holding at most `titles` titles.
RECURSIVE GroupSeqs(_, _, _, _)
GroupSeqs(names, flags, groups, titles) ==
    {<<>>} \cup
        (IF groups = 0 \/ titles <= 0 THEN {}
         ELSE UNION {{<<[titles |-> t]>> \o rest :
                          rest \in GroupSeqs(names, flags, groups - 1,
                                            titles - Len(t))} :
                     t \in TitleSeqs(names, flags, IF titles < MaxItems
                                            THEN titles ELSE MaxItems)})

FailedIds == {[n \in 1..k |-> n] : k \in 0..MaxFailed}

Budgets == (MinMaxBytes..MaxMaxBytes) \cup {HugeMaxBytes}

\* Reports of every shape within the bounds; no entry is flagged new.
Init ==
    /\ \E st \in GroupSeqs({"s1"}, {FALSE}, MaxGroups, MaxTitles) :
       \E nt \in GroupSeqs({"s1"}, {FALSE}, MaxGroups,
                            MaxTitles - SumLens(st)) :
       \E f \in FailedIds :
          report_data = [stats |-> st, new_titles |-> nt, failed_ids |-> f]
    /\ rss_items \in GroupSeqs({"s1"}, {FALSE}, MaxGroups,
           MaxTitles - SumLens(report_data.stats)
                     - SumLens(report_data.new_titles))
    /\ rss_new_items \in GroupSeqs(Sources, {FALSE}, MaxGroups,
           MaxTitles - SumLens(report_data.stats)
                     - SumLens(report_data.new_titles) - SumLens(rss_items))
    /\ format_type \in FormatTypes
    /\ update_info \in BOOLEAN
    /\ max_bytes \in Budgets
    /\ mode \in (IF EmptyReport THEN Modes ELSE {"daily"})
    /\ reverse_content_order \in BOOLEAN
    /\ now = 0
    /\ batches = <<>>
    /\ current_batch = base_header
    /\ current_batch_has_content = FALSE
    /\ pc = "start" /\ sidx = 0 /\ i = 0 /\ j = 0
    /\ config = NoConfig
    /\ max_accounts = DefaultMaxAccounts
    /\ DispatcherIdle
    /\ CallerIdle

Next ==
    \/ ReturnPlaceholder
    \/ Begin
    \/ PlaceBanner
    \/ PlaceUnit
    \/ PlaceTitle
    \/ PlaceSeparator
    \/ PlaceBlankLine
    \/ PlaceFailedHeader
    \/ PlaceFailedLine
    \/ Finalize

Spec == Init /\ [][Next]_vars

\* Reports whose entries carry either value of the is_new flag, in the normal
\* section order and without a version notice, for a format without and a
\* format with a header.
CopyInit ==
    /\ \E st \in GroupSeqs({"s1"}, BOOLEAN, MaxGroups, MaxTitles) :
       \E nt \in GroupSeqs({"s1"}, BOOLEAN, MaxGroups,
                            MaxTitles - SumLens(st)) :
       \E f \in FailedIds :
          report_data = [stats |-> st, new_titles |-> nt, failed_ids |-> f]
    /\ rss_items \in GroupSeqs({"s1"}, BOOLEAN, MaxGroups,
           MaxTitles - SumLens(report_data.stats)
                     - SumLens(report_data.new_titles))
    /\ rss_new_items \in GroupSeqs(Sources, BOOLEAN, MaxGroups,
           MaxTitles - SumLens(report_data.stats)
                     - SumLens(report_data.new_titles) - SumLens(rss_items))
    /\ format_type \in {"feishu", "telegram"}
    /\ update_info = FALSE
    /\ max_bytes \in Budgets
    /\ mode \in (IF EmptyReport THEN Modes ELSE {"daily"})
    /\ reverse_content_order = FALSE
    /\ now = 0
    /\ batches = <<>>
    /\ current_batch = base_header
    /\ current_batch_has_content = FALSE
    /\ pc = "start" /\ sidx = 0 /\ i = 0 /\ j = 0
    /\ config = NoConfig
    /\ max_accounts = DefaultMaxAccounts
    /\ DispatcherIdle
    /\ CallerIdle

CopySpec == CopyInit /\ [][Next]_vars

\* Byte budgets below the dense range, down to one under which a failed-source
\* line does not fit behind the header.
TightBudgets == TinyMaxBytes..(MinMaxBytes - 1)

\* The reports of Init under the byte budgets below the dense range.
TightInit ==
    /\ \E st \in GroupSeqs({"s1"}, {FALSE}, MaxGroups, MaxTitles) :
       \E nt \in GroupSeqs({"s1"}, {FALSE}, MaxGroups,
                            MaxTitles - SumLens(st)) :
       \E f \in FailedIds :
          report_data = [stats |-> st, new_titles |-> nt, failed_ids |-> f]
    /\ rss_items \in GroupSeqs({"s1"}, {FALSE}, MaxGroups,
           MaxTitles - SumLens(report_data.stats)
                     - SumLens(report_data.new_titles))
    /\ rss_new_items \in GroupSeqs(Sources, {FALSE}, MaxGroups,
           MaxTitles - SumLens(report_data.stats)
                     - SumLens(report_data.new_titles) - SumLens(rss_items))
    /\ format_type \in FormatTypes
    /\ update_info \in BOOLEAN
    /\ max_bytes \in TightBudgets
    /\ mode \in (IF EmptyReport THEN Modes ELSE {"daily"})
    /\ reverse_content_order \in BOOLEAN
    /\ now = 0
    /\ batches = <<>>
    /\ current_batch = base_header
    /\ current_batch_has_content = FALSE
    /\ pc = "start" /\ sidx = 0 /\ i = 0 /\ j = 0
    /\ config = NoConfig
    /\ max_accounts = DefaultMaxAccounts
    /\ DispatcherIdle
    /\ CallerIdle

TightSpec == TightInit /\ [][Next]_vars

\* ---------------------------------------------------------------------------
\* Segmentation for the accounts of one channel
\* ---------------------------------------------------------------------------
\* Mutant of SplitForNextAccount: the next account gets the report without
\* its failed sources.
SplitForNextAccountShortened ==
    /\ pc = "done"
    /\ previous.calls = 0
    /\ previous' = [calls |-> 1, targets |-> batches, results |-> <<>>]
    /\ now' \in now..MaxTicks
    /\ report_data' = [report_data EXCEPT !.failed_ids = <<>>]
    /\ batches' = <<>>
    /\ current_batch' = base_header
    /\ current_batch_has_content' = FALSE
    /\ Goto("start", 0, 0, 0)
    /\ UNCHANGED <<format_type, update_info, max_bytes, mode,
                   reverse_content_order, rss_items, rss_new_items,
                   fields, call, results, ch, loop_vars, batch_vars, attempts,
                   dpc, caller_vars, run_vars>>

\* The account loop calls the split function again for the next account, with
\* the same arguments; the batches handed to the transport for the account
\* before are kept for comparison, and the clock may have moved on.
SplitForNextAccount ==
    /\ pc = "done"
    /\ previous.calls = 0
    /\ previous' = [calls |-> 1, targets |-> batches, results |-> <<>>]
    /\ now' \in now..MaxTicks
    /\ batches' = <<>>
    /\ current_batch' = base_header
    /\ current_batch_has_content' = FALSE
    /\ Goto("start", 0, 0, 0)
    /\ UNCHANGED <<report_data, format_type, update_info, max_bytes, mode,
                   reverse_content_order, rss_items, rss_new_items,
                   fields, call, results, ch, loop_vars, batch_vars, attempts,
                   dpc, caller_vars, run_vars>>

\* Reports in the normal section order for the first account of a channel.
ReuseInit ==
    /\ \E st \in GroupSeqs({"s1"}, {FALSE}, MaxGroups, MaxTitles) :
       \E nt \in GroupSeqs({"s1"}, {FALSE}, MaxGroups,
                            MaxTitles - SumLens(st)) :
       \E f \in FailedIds :
          report_data = [stats |-> st, new_titles |-> nt, failed_ids |-> f]
    /\ rss_items \in GroupSeqs({"s1"}, {FALSE}, MaxGroups,
           MaxTitles - SumLens(report_data.stats)
                     - SumLens(report_data.new_titles))
    /\ rss_new_items \in GroupSeqs(Sources, {FALSE}, MaxGroups,
           MaxTitles - SumLens(report_data.stats)
                     - SumLens(report_data.new_titles) - SumLens(rss_items))
    /\ format_type \in {"feishu", "telegram"}
    /\ update_info \in BOOLEAN
    /\ max_bytes \in Budgets
    /\ mode \in (IF EmptyReport THEN Modes ELSE {"daily"})
    /\ reverse_content_order = FALSE
    /\ now = 0
    /\ batches = <<>>
    /\ current_batch = base_header
    /\ current_batch_has_content = FALSE
    /\ pc = "start" /\ sidx = 0 /\ i = 0 /\ j = 0
    /\ config = NoConfig
    /\ max_accounts = DefaultMaxAccounts
    /\ DispatcherIdle
    /\ CallerIdle

ReuseNext ==
    \/ Next
    \/ SplitForNextAccount

ReuseSpec == ReuseInit /\ [][ReuseNext]_vars

\* ---------------------------------------------------------------------------
\* RSS new items whose keyword groups may hold no title
\* ---------------------------------------------------------------------------
\* Telegram reports of hot-list stats, failed sources and RSS new items; a
\* keyword group of rss_new_items may have an empty titles list.
SparseInit ==
    /\ LET choices == {<<>>} \cup TitleSeqs(Sources, {FALSE}, MaxItems)
           lists == UNION {[1..n -> [titles : choices]] : n \in 0..MaxGroups}
       IN  rss_new_items \in {g \in lists : SumLens(g) <= MaxTitles}
    /\ \E st \in GroupSeqs({"s1"}, {FALSE}, MaxGroups,
                            MaxTitles - SumLens(rss_new_items)) :
       \E f \in FailedIds :
          report_data = [stats |-> st, new_titles |-> <<>>, failed_ids |-> f]
    /\ rss_items = <<>>
    /\ format_type = "telegram"
    /\ update_info = FALSE
    /\ max_bytes \in Budgets
    /\ mode \in (IF EmptyReport THEN Modes ELSE {"daily"})
    /\ reverse_content_order \in BOOLEAN
    /\ now = 0
    /\ batches = <<>>
    /\ current_batch = base_header
    /\ current_batch_has_content = FALSE
    /\ pc = "start" /\ sidx = 0 /\ i = 0 /\ j = 0
    /\ config = NoConfig
    /\ max_accounts = DefaultMaxAccounts
    /\ DispatcherIdle
    /\ CallerIdle

SparseSpec == SparseInit /\ [][Next]_vars

\* The dispatcher after construction, for every configuration.
DispatchInit ==
    /\ config \in Configs
    /\ \E setting \in {<<>>} \cup {<<n>> : n \in 1..MaxCap} :
          max_accounts = MaxAccountsOf(setting)
    /\ DispatcherIdle
    /\ SplitterIdle
    /\ CallerIdle

DispatchNext ==
    \/ CallDispatchAll
    \/ CallDispatchRss
    \/ RejectChannel
    \/ StartChannel
    \/ SendAccount
    \/ SplitContent
    \/ PostBatch
    \/ RaiseForStatus
    \/ FinishChannel
    \/ SendEmail
    \/ Return

DispatchSpec == DispatchInit /\ [][DispatchNext]_vars

\* ---------------------------------------------------------------------------
\* Configuration strings of one channel
\* ---------------------------------------------------------------------------
\* Atoms of a raw string: separator, white space and two pieces of text.
RawAtoms == {";", " ", "a", "b"}

\* All raw strings of at most n atoms.
RawStrings(n) == UNION {[1..k -> RawAtoms] : k \in 0..n}

\* The dispatcher after construction with FEISHU_WEBHOOK_URL set to any raw
\* string and no MAX_ACCOUNTS_PER_CHANNEL.
ParseInit ==
    /\ \E raw \in RawStrings(MaxRawLen)
                    \cup {<<" ", "a", " ", ";", ";", " ", "b", " ", ";">>} :
          config = [NoConfig EXCEPT !["FEISHU_WEBHOOK_URL"] = raw]
    /\ max_accounts = MaxAccountsOf(<<>>)
    /\ DispatcherIdle
    /\ SplitterIdle
    /\ CallerIdle

\* dispatch_all through _send_to_multi_accounts.
ParseNext ==
    \/ CallDispatchAll
    \/ RejectChannel
    \/ StartChannel
    \/ SendAccount
    \/ FinishChannel
    \/ Return

ParseSpec == ParseInit /\ [][ParseNext]_vars

\* ---------------------------------------------------------------------------
\* Repeated calls of dispatch_all on one dispatcher
\* ---------------------------------------------------------------------------
\* The dispatcher after construction, for every configuration without
\* MAX_ACCOUNTS_PER_CHANNEL; the caller passes the same report to every call.
RepeatInit ==
    /\ config \in Configs
    /\ max_accounts = MaxAccountsOf(<<>>)
    /\ DispatcherIdle
    /\ SplitterIdle
    /\ CallerIdle

RepeatNext ==
    \/ CallDispatchAll
    \/ CallDispatchAllAgain
    \/ RejectChannel
    \/ StartChannel
    \/ SendAccount
    \/ FinishChannel
    \/ SendEmail
    \/ Return

RepeatSpec == RepeatInit /\ [][RepeatNext]_vars

\* ---------------------------------------------------------------------------
\* One run of _send_notification_if_needed
\* ---------------------------------------------------------------------------
GateKeys == {"FEISHU_WEBHOOK_URL", "TELEGRAM_BOT_TOKEN", "TELEGRAM_CHAT_ID"}

\* Configurations with at most a Feishu and a Telegram channel.
GateConfigs ==
    {c \in Configs : \A key \in DOMAIN c : key \notin GateKeys => c[key] = <<>>}

\* Entry of _send_notification_if_needed for every setting of the gate, any
\* time of day and any push record left by earlier runs.
GateInit ==
    /\ config \in GateConfigs
    /\ \E setting \in {<<>>} \cup {<<n>> : n \in 1..MaxCap} :
          max_accounts = MaxAccountsOf(setting)
    /\ cfg \in [ENABLE_NOTIFICATION : BOOLEAN, PUSH_WINDOW_ENABLED : BOOLEAN,
                ONCE_PER_DAY : BOOLEAN]
    /\ has_any_content \in BOOLEAN
    /\ in_time_range \in BOOLEAN
    /\ push_record \in BOOLEAN
    /\ gpc = "enter"
    /\ returned = FALSE
    /\ runs = 1 /\ pushed = 0
    /\ RunIdle
    /\ DispatcherIdle
    /\ SplitterIdle

GateNext ==
    \/ CheckNotification
    \/ CheckPushWindow
    \/ DispatchFromGate
    \/ RejectChannel
    \/ StartChannel
    \/ SendAccount
    \/ FinishChannel
    \/ Return
    \/ RecordPush

GateSpec == GateInit /\ [][GateNext]_vars

\* ---------------------------------------------------------------------------
\* The runs of one day
\* ---------------------------------------------------------------------------
\* Mutant of NextRun: the push record does not outlast the run.
NextRunForgetting ==
    /\ gpc = "done"
    /\ runs < MaxRuns
    /\ runs' = runs + 1
    /\ gpc' = "enter" /\ returned' = FALSE
    /\ has_any_content' \in BOOLEAN
    /\ in_time_range' \in BOOLEAN
    /\ push_record' = FALSE
    /\ call' = "none" /\ results' = <<>> /\ ch' = 0
    /\ accounts' = <<>> /\ partners' = <<>> /\ loop_len' = 0
    /\ account_idx' = 0 /\ account_results' = <<>>
    /\ attempts' = <<>>
    /\ dpc' = "idle"
    /\ previous' =
          IF call = "dispatch_all"
          THEN [calls |-> previous.calls + 1, targets |-> Targets(attempts),
                results |-> results]
          ELSE previous
    /\ UNCHANGED <<cfg, pushed, fields, batch_vars, splitter_vars,
                   run_vars>>

\* The program is started again later on the same day: new content, another
\* time of day, a new dispatcher; the push record of the day is what the
\* earlier runs left.
NextRun ==
    /\ gpc = "done"
    /\ runs < MaxRuns
    /\ runs' = runs + 1
    /\ gpc' = "enter" /\ returned' = FALSE
    /\ has_any_content' \in BOOLEAN
    /\ in_time_range' \in BOOLEAN
    /\ call' = "none" /\ results' = <<>> /\ ch' = 0
    /\ accounts' = <<>> /\ partners' = <<>> /\ loop_len' = 0
    /\ account_idx' = 0 /\ account_results' = <<>>
    /\ attempts' = <<>>
    /\ dpc' = "idle"
    /\ previous' =
          IF call = "dispatch_all"
          THEN [calls |-> previous.calls + 1, targets |-> Targets(attempts),
                results |-> results]
          ELSE previous
    /\ UNCHANGED <<cfg, push_record, pushed, fields, batch_vars,
                   splitter_vars, run_vars>>

\* The first run of a day: nothing has been pushed yet.
DayInit ==
    /\ config \in GateConfigs
    /\ max_accounts = MaxAccountsOf(<<>>)
    /\ cfg \in [ENABLE_NOTIFICATION : BOOLEAN, PUSH_WINDOW_ENABLED : BOOLEAN,
                ONCE_PER_DAY : BOOLEAN]
    /\ has_any_content \in BOOLEAN
    /\ in_time_range \in BOOLEAN
    /\ push_record = FALSE
    /\ gpc = "enter"
    /\ returned = FALSE
    /\ runs = 1 /\ pushed = 0
    /\ RunIdle
    /\ DispatcherIdle
    /\ SplitterIdle

DayNext ==
    \/ CheckNotification
    \/ CheckPushWindow
    \/ DispatchFromGate
    \/ RejectChannel
    \/ StartChannel
    \/ SendAccount
    \/ FinishChannel
    \/ Return
    \/ RecordPush
    \/ NextRun

DaySpec == DayInit /\ [][DayNext]_vars

\* ---------------------------------------------------------------------------
\* NewsAnalyzer.run and _execute_mode_strategy
\* ---------------------------------------------------------------------------
MODE_STRATEGIES ==
    [m \in Modes |->
        CASE m = "incremental" ->
                 [should_send_realtime |-> TRUE,
                  should_generate_summary |-> TRUE, summary_mode |-> "daily"]
          [] m = "current" ->
                 [should_send_realtime |-> TRUE,
                  should_generate_summary |-> TRUE, summary_mode |-> "current"]
          [] OTHER ->
                 [should_send_realtime |-> FALSE,
                  should_generate_summary |-> TRUE, summary_mode |-> "daily"]]

_get_mode_strategy == MODE_STRATEGIES[report_mode]

\* Mutant of has_valid_content: the incremental mode is content with matched
\* news alone.
HasValidContentWithoutNew == stats_matched \/ (report_mode = "daily" /\ new_found)

\* _has_valid_content
has_valid_content ==
    CASE report_mode = "incremental" -> new_found /\ stats_matched
      [] report_mode = "current" -> stats_matched
      [] OTHER -> stats_matched \/ new_found

\* Entry of _send_notification_if_needed from the mode strategy, with a
\* dispatcher of its own.
EnterGate ==
    /\ gpc' = "enter" /\ returned' = FALSE
    /\ has_any_content' = (has_valid_content \/ rss_found)
    /\ call' = "none" /\ results' = <<>> /\ ch' = 0
    /\ accounts' = <<>> /\ partners' = <<>> /\ loop_len' = 0
    /\ account_idx' = 0 /\ account_results' = <<>>
    /\ attempts' = <<>>
    /\ dpc' = "idle"
    /\ previous' =
          IF call = "dispatch_all"
          THEN [calls |-> previous.calls + 1, targets |-> Targets(attempts),
                results |-> results]
          ELSE previous
    /\ UNCHANGED <<cfg, in_time_range, push_record, runs, pushed, fields,
                   batch_vars>>

\* No call of _send_notification_if_needed is made by the step.
NoGate ==
    UNCHANGED <<caller_vars, dispatcher_vars>>

\* raise: the exception leaves the try block of run.
Raise(e) == exc' = e /\ rpc' = "finally"

\* _initialize_and_check_config, _crawl_data, _crawl_rss_data: they complete, or
\* one of them raises.
PrepareRun ==
    /\ rpc = "init"
    /\ \/ rpc' = "strategy" /\ exc' = exc
       \/ Raise("Exception")
    /\ NoGate
    /\ UNCHANGED <<version_vars, report_mode, stats_matched, new_found, rss_found, cleanups,
                   splitter_vars>>

\* The analysis in front of the realtime notification; in current mode the
\* data saved by this run is read back, or RuntimeError is raised.
RunAnalysis ==
    /\ rpc = "strategy"
    /\ IF report_mode = "current"
       THEN \E analysis_data \in BOOLEAN :
               IF analysis_data THEN rpc' = "realtime" /\ exc' = exc
               ELSE Raise("RuntimeError")
       ELSE rpc' = "realtime" /\ exc' = exc
    /\ NoGate
    /\ UNCHANGED <<version_vars, report_mode, stats_matched, new_found, rss_found, cleanups,
                   splitter_vars>>

\* if mode_strategy["should_send_realtime"]: _send_notification_if_needed(...)
SendRealtime ==
    /\ rpc = "realtime"
    /\ IF _get_mode_strategy.should_send_realtime
       THEN EnterGate /\ rpc' = "realtime_sent"
       ELSE NoGate /\ rpc' = "summary"
    /\ UNCHANGED <<version_vars, report_mode, stats_matched, new_found, rss_found, exc,
                   cleanups, splitter_vars>>

\* _send_notification_if_needed has returned to the mode strategy.
FinishRealtime ==
    /\ rpc = "realtime_sent"
    /\ gpc = "done"
    /\ gpc' = "idle"
    /\ rpc' = "summary"
    /\ UNCHANGED <<cfg, has_any_content, in_time_range, push_record, returned,
                   runs, pushed, report_mode, stats_matched, new_found,
                   rss_found, exc, cleanups, version_vars, splitter_vars,
                   dispatcher_vars>>

\* Mutant of GenerateSummary: the summary report is sent in every mode.
GenerateSummaryAndSend ==
    /\ rpc = "summary"
    /\ IF _get_mode_strategy.should_generate_summary
       THEN \E analysis_data \in BOOLEAN :
               IF analysis_data
               THEN EnterGate /\ rpc' = "summary_sent"
               ELSE NoGate /\ rpc' = "finally"
       ELSE NoGate /\ rpc' = "finally"
    /\ UNCHANGED <<version_vars, report_mode, stats_matched, new_found, rss_found, exc,
                   cleanups, splitter_vars>>

\* The summary: _generate_summary_html after a realtime notification,
\* _generate_summary_report (which notifies when it has data) otherwise.
GenerateSummary ==
    /\ rpc = "summary"
    /\ IF _get_mode_strategy.should_generate_summary
       THEN IF _get_mode_strategy.should_send_realtime
            THEN NoGate /\ rpc' = "finally"
            ELSE \E analysis_data \in BOOLEAN :
                    IF analysis_data
                    THEN EnterGate /\ rpc' = "summary_sent"
                    ELSE NoGate /\ rpc' = "finally"
       ELSE NoGate /\ rpc' = "finally"
    /\ UNCHANGED <<version_vars, report_mode, stats_matched, new_found, rss_found, exc,
                   cleanups, splitter_vars>>

\* _send_notification_if_needed has returned to _generate_summary_report.
FinishSummary ==
    /\ rpc = "summary_sent"
    /\ gpc = "done"
    /\ gpc' = "idle"
    /\ rpc' = "finally"
    /\ UNCHANGED <<cfg, has_any_content, in_time_range, push_record, returned,
                   runs, pushed, report_mode, stats_matched, new_found,
                   rss_found, exc, cleanups, version_vars, splitter_vars,
                   dispatcher_vars>>

\* Mutant of Cleanup: ctx.cleanup() at the end of the try block, so that it
\* is skipped when an exception leaves it.
CleanupInTry ==
    /\ rpc = "finally"
    /\ cleanups' = IF exc = "none" THEN cleanups + 1 ELSE cleanups
    /\ rpc' = IF exc = "none" THEN "returned" ELSE "propagated"
    /\ NoGate
    /\ UNCHANGED <<version_vars, report_mode, stats_matched, new_found, rss_found, exc,
                   splitter_vars>>

\* finally: self.ctx.cleanup(); then run returns, or the exception goes on to
\* the caller.
Cleanup ==
    /\ rpc = "finally"
    /\ cleanups' = cleanups + 1
    /\ rpc' = IF exc = "none" THEN "returned" ELSE "propagated"
    /\ NoGate
    /\ UNCHANGED <<version_vars, report_mode, stats_matched, new_found, rss_found, exc,
                   splitter_vars>>

\* Configurations with at most a Feishu channel.
RunConfigs ==
    {c \in Configs :
        \A key \in DOMAIN c : key # "FEISHU_WEBHOOK_URL" => c[key] = <<>>}

\* Entry of run for every report mode, outcome of the analysis, setting of
\* the gate, time of day and push record.
RunInit ==
    /\ config \in RunConfigs
    /\ max_accounts = MaxAccountsOf(<<>>)
    /\ cfg \in [ENABLE_NOTIFICATION : BOOLEAN, PUSH_WINDOW_ENABLED : BOOLEAN,
                ONCE_PER_DAY : BOOLEAN]
    /\ has_any_content = FALSE
    /\ in_time_range \in BOOLEAN
    /\ push_record \in BOOLEAN
    /\ gpc = "idle"
    /\ returned = FALSE
    /\ runs = 1 /\ pushed = 0
    /\ report_mode \in Modes
    /\ stats_matched \in BOOLEAN
    /\ new_found \in BOOLEAN
    /\ rss_found \in BOOLEAN
    /\ rpc = "init"
    /\ exc = "none"
    /\ cleanups = 0
    /\ current_version = <<>>
    /\ response = [ok |-> FALSE, text |-> <<>>]
    /\ vpc = "idle"
    /\ update = [need_update |-> FALSE, remote_version |-> <<"None">>]
    /\ DispatcherIdle
    /\ SplitterIdle

RunNext ==
    \/ PrepareRun
    \/ RunAnalysis
    \/ SendRealtime
    \/ FinishRealtime
    \/ GenerateSummary
    \/ FinishSummary
    \/ Cleanup
    \/ CheckNotification
    \/ CheckPushWindow
    \/ DispatchFromGate
    \/ RejectChannel
    \/ StartChannel
    \/ SendAccount
    \/ FinishChannel
    \/ Return
    \/ RecordPush

RunSpec == RunInit /\ [][RunNext]_vars

\* The interpreter goes on with the next statement of a run for as long as
\* there is one: every call of the run returns or raises.
FairRunSpec == RunSpec /\ WF_vars(RunNext)

\* ---------------------------------------------------------------------------
\* The version check (__main__.py)
\* ---------------------------------------------------------------------------
\* Characters of a version text: two digits, the dot, a letter and white
\* space.
VersionAtoms == {"0", "1", ".", "x", " "}

\* parse_version: strip, split on ".", three parts, int() of each; any
\* exception gives (0, 0, 0).  int() accepts digits with white space around
\* them.
parse_version(version_str) ==
    LET RECURSIVE SplitDots(_, _)
        SplitDots(str, part) ==
            IF str = <<>> THEN <<part>>
            ELSE IF Head(str) = "." THEN <<part>> \o SplitDots(Tail(str), <<>>)
            ELSE SplitDots(Tail(str), Append(part, Head(str)))
        RECURSIVE Decimal(_, _)
        Decimal(digits, value) ==
            IF digits = <<>> THEN value
            ELSE Decimal(Tail(digits),
                         10 * value + (IF Head(digits) = "1" THEN 1 ELSE 0))
        IsInt(part) ==
            /\ Strip(part) # <<>>
            /\ \A p \in 1..Len(Strip(part)) : Strip(part)[p] \in {"0", "1"}
        int(part) == Decimal(Strip(part), 0)
        parts == SplitDots(Strip(version_str), <<>>)
    IN  IF Len(parts) # 3 THEN <<0, 0, 0>>
        ELSE IF \E p \in 1..3 : ~IsInt(parts[p]) THEN <<0, 0, 0>>
        ELSE <<int(parts[1]), int(parts[2]), int(parts[3])>>

\* Mutant of check_version_update: an equal remote version counts as an
\* update.
check_version_update_or_equal ==
    /\ vpc = "called"
    /\ \E ok \in BOOLEAN :
       \E text \in UNION {[1..n -> VersionAtoms] : n \in 0..MaxVersionLen} :
          /\ response' = [ok |-> ok, text |-> IF ok THEN text ELSE <<>>]
          /\ IF ~ok
             THEN update' = [need_update |-> FALSE, remote_version |-> <<"None">>]
             ELSE LET remote_version == Strip(text)
                      current_tuple == parse_version(current_version)
                      remote_tuple == parse_version(remote_version)
                      need_update ==
                          \/ current_tuple[1] < remote_tuple[1]
                          \/ /\ current_tuple[1] = remote_tuple[1]
                             /\ current_tuple[2] < remote_tuple[2]
                          \/ /\ current_tuple[1] = remote_tuple[1]
                             /\ current_tuple[2] = remote_tuple[2]
                             /\ current_tuple[3] <= remote_tuple[3]
                  IN  update' = [need_update |-> need_update,
                                 remote_version |-> IF need_update
                                                    THEN remote_version
                                                    ELSE <<"None">>]
    /\ vpc' = "returned"
    /\ UNCHANGED <<current_version, report_mode, stats_matched, new_found,
                   rss_found, rpc, exc, cleanups, splitter_vars,
                   dispatcher_vars, caller_vars>>

\* check_version_update: requests.get and raise_for_status raise, or the text
\* of the response is stripped and its tuple compared with the tuple of the
\* current version; the except clause returns (False, None).
check_version_update ==
    /\ vpc = "called"
    /\ \E ok \in BOOLEAN :
       \E text \in UNION {[1..n -> VersionAtoms] : n \in 0..MaxVersionLen} :
          /\ response' = [ok |-> ok, text |-> IF ok THEN text ELSE <<>>]
          /\ IF ~ok
             THEN update' = [need_update |-> FALSE, remote_version |-> <<"None">>]
             ELSE LET remote_version == Strip(text)
                      current_tuple == parse_version(current_version)
                      remote_tuple == parse_version(remote_version)
                      need_update ==
                          \/ current_tuple[1] < remote_tuple[1]
                          \/ /\ current_tuple[1] = remote_tuple[1]
                             /\ current_tuple[2] < remote_tuple[2]
                          \/ /\ current_tuple[1] = remote_tuple[1]
                             /\ current_tuple[2] = remote_tuple[2]
                             /\ current_tuple[3] < remote_tuple[3]
                  IN  update' = [need_update |-> need_update,
                                 remote_version |-> IF need_update
                                                    THEN remote_version
                                                    ELSE <<"None">>]
    /\ vpc' = "returned"
    /\ UNCHANGED <<current_version, report_mode, stats_matched, new_found,
                   rss_found, rpc, exc, cleanups, splitter_vars,
                   dispatcher_vars, caller_vars>>

\* The call of check_version_update with the version of the program: 1.0.1,
\* 0.1.0, 10.0.0 or a text that is no version.
VersionInit ==
    /\ current_version \in {<<"1", ".", "0", ".", "1">>,
                             <<"0", ".", "1", ".", "0">>,
                             <<"1", "0", ".", "0", ".", "0">>,
                             <<"x">>}
    /\ response = [ok |-> FALSE, text |-> <<>>]
    /\ vpc = "called"
    /\ update = [need_update |-> FALSE, remote_version |-> <<"None">>]
    /\ report_mode = "daily"
    /\ stats_matched = FALSE /\ new_found = FALSE /\ rss_found = FALSE
    /\ rpc = "idle"
    /\ exc = "none"
    /\ cleanups = 0
    /\ cfg = [ENABLE_NOTIFICATION |-> FALSE, PUSH_WINDOW_ENABLED |-> FALSE,
              ONCE_PER_DAY |-> FALSE]
    /\ has_any_content = FALSE
    /\ in_time_range = TRUE
    /\ push_record = FALSE
    /\ gpc = "idle"
    /\ returned = FALSE
    /\ runs = 0 /\ pushed = 0
    /\ config = NoConfig
    /\ max_accounts = DefaultMaxAccounts
    /\ DispatcherIdle
    /\ SplitterIdle

VersionSpec == VersionInit /\ [][check_version_update]_vars

\* ---------------------------------------------------------------------------
\* Reading the output
\* ---------------------------------------------------------------------------
Returned == pc = "done"

\* Number of pieces of the given kinds in a string.
Count(s, kinds) == Len(SelectSeq(s, LAMBDA p : p.k \in kinds))

RECURSIVE Join(_)
Join(bs) == IF bs = <<>> THEN <<>> ELSE Head(bs) \o Join(Tail(bs))

OverBudget(b) == ByteLen(b) > max_bytes

\* ---------------------------------------------------------------------------
\* C1: batch size bound
\* ---------------------------------------------------------------------------
\* The batch holds exactly one atomic unit: one group header with the group's
\* first title, and no other title or failed line.
FirstUnitOnly(b) ==
    /\ Count(b, {"title", "group"}) = 2
    /\ Count(b, {"failed_line", "separator"}) = 0
    /\ \E p \in 1..(Len(b) - 1) :
          b[p].k = "group" /\ b[p + 1].k = "title" /\ b[p + 1].n = 1

SinglePlacement(b) ==
    /\ Count(b, {"title", "failed_line", "placeholder"}) <= 1
    /\ Count(b, {"banner"}) <= 1
    /\ Count(b, {"group"}) <= 1
    /\ Count(b, {"separator"}) = 0

UnitsWhole(b) ==
    \A p \in 1..Len(b) :
        /\ (b[p].k = "title" /\ b[p].n = 1) =>
              /\ p > 1
              /\ b[p - 1].k = "group"
              /\ b[p - 1].sec = b[p].sec /\ b[p - 1].g = b[p].g
        /\ b[p].k = "group" =>
              /\ p < Len(b)
              /\ b[p + 1].k = "title"
              /\ b[p + 1].sec = b[p].sec /\ b[p + 1].g = b[p].g

\* C2: in every section the group header and the group's first title are in
\* the same batch; no batch ends with a group header whose first title starts
\* the next batch.
C2_UnitNeverSplit ==
    /\ \A k \in 1..Len(batches) : UnitsWhole(batches[k])
    /\ UnitsWhole(current_batch)

\* A unit that did not fit was moved whole to the next batch, behind a batch
\* that already carried a title.
C2_Witness ==
    /\ Returned
    /\ \E k \in 2..Len(batches) :
          /\ Count(batches[k - 1], {"title"}) > 0
          /\ \E p \in 2..Len(batches[k]) :
                /\ batches[k][p].k = "title" /\ batches[k][p].n = 1
                /\ batches[k][p - 1].k = "group"
                /\ batches[k][p - 2].k \in {"banner", "header"}

\* ---------------------------------------------------------------------------
\* C3: nothing is lost, duplicated or reordered
\* ---------------------------------------------------------------------------
\* <<g, n>> of every title of a group list, in input order.
RECURSIVE InputOrder(_, _)
InputOrder(groups, g) ==
    IF g > Len(groups) THEN <<>>
    ELSE [n \in 1..Len(groups[g].titles) |-> <<g, n>>] \o InputOrder(groups, g + 1)

\* A sequence with runs of equal neighbours collapsed to one element.
RECURSIVE Collapse(_)
Collapse(s) ==
    IF Len(s) <= 1 THEN s
    ELSE IF s[1] = s[2] THEN Collapse(Tail(s))
    ELSE <<s[1]>> \o Collapse(Tail(s))

TitlesOf(out, sec) ==
    LET t == SelectSeq(out, LAMBDA p : p.k = "title" /\ p.sec = sec)
    IN  [p \in 1..Len(t) |-> <<t[p].g, t[p].n>>]

GroupsOf(out, sec) ==
    LET h == SelectSeq(out, LAMBDA p : p.k = "group" /\ p.sec = sec)
    IN  Collapse([p \in 1..Len(h) |-> h[p].g])

FailedOf(out) ==
    LET f == SelectSeq(out, LAMBDA p : p.k = "failed_line")
    IN  [p \in 1..Len(f) |-> f[p].n]

\* C3: the batches re-joined in output order carry every title of every
\* WordStat and SourceGroup and every failed id exactly once, in input order,
\* and the groups in input order (a group header repeated at the start of a
\* continuation batch is the re-entry context of the same group).
C3_ContentPreserved ==
    (Returned /\ ~(/\ report_data.stats = <<>>
                  /\ report_data.new_titles = <<>>
                  /\ report_data.failed_ids = <<>>)) =>
        LET out == Join(batches)
        IN  /\ TitlesOf(out, "stats") = InputOrder(report_data.stats, 1)
            /\ TitlesOf(out, "new") = InputOrder(report_data.new_titles, 1)
            /\ GroupsOf(out, "stats") = [g \in 1..Len(report_data.stats) |-> g]
            /\ GroupsOf(out, "new") = [g \in 1..Len(report_data.new_titles) |-> g]
            /\ FailedOf(out) = report_data.failed_ids

\* A group was split across two batches, and failed ids were rendered.
C3_Witness ==
    /\ Returned
    /\ report_data.failed_ids # <<>>
    /\ \E k \in 2..Len(batches) :
       \E p \in 1..Len(batches[k - 1]) :
       \E q \in 1..Len(batches[k]) :
          /\ batches[k - 1][p].k = "title" /\ batches[k][q].k = "title"
          /\ batches[k - 1][p].sec = batches[k][q].sec
          /\ batches[k - 1][p].g = batches[k][q].g
          /\ batches[k][q].n = batches[k - 1][p].n + 1

\* ---------------------------------------------------------------------------
\* C4, C5: section order
\* ---------------------------------------------------------------------------
\* Place of a section in the order the specification states for the flag.
StatedRank(sec) ==
    IF reverse_content_order
    THEN CASE sec = "new" -> 1 [] sec = "rss_new" -> 2
           [] sec = "stats" -> 3 [] sec = "rss_stats" -> 4 [] OTHER -> 5
    ELSE CASE sec = "stats" -> 1 [] sec = "rss_stats" -> 2
           [] sec = "new" -> 3 [] sec = "rss_new" -> 4 [] OTHER -> 5

\* The pieces of the output that belong to a section.
SectionPieces(out, secs) == SelectSeq(out, LAMBDA p : p.sec \in secs)

\* C4: the four content sections appear in the order hotlist-new, rss-new,
\* hotlist-stats, rss-stats when reverse_content_order is true and
\* hotlist-stats, rss-stats, hotlist-new, rss-new otherwise; no piece (banner
\* included) of an earlier section follows a piece of a later section.
C4_SectionOrder ==
    Returned =>
        LET out == SectionPieces(Join(batches),
                                 {"stats", "rss_stats", "new", "rss_new"})
        IN  \A p \in 1..(Len(out) - 1) :
                StatedRank(out[p].sec) <= StatedRank(out[p + 1].sec)

\* Reversed order with both a new-items title and a stats title, over several
\* batches.
C4_Witness ==
    /\ Returned
    /\ reverse_content_order
    /\ Len(batches) >= 2
    /\ \E p \in 1..Len(Join(batches)) :
          Join(batches)[p].k = "title" /\ Join(batches)[p].sec \in NewSections
    /\ \E p \in 1..Len(Join(batches)) :
          Join(batches)[p].k = "title" /\ Join(batches)[p].sec \in StatsSections

\* C5: for both values of reverse_content_order nothing of a stats or
\* new-items section appears after the first piece of the failed-sources
\* section.
C5_FailedLast ==
    Returned =>
        LET out == SectionPieces(Join(batches),
                       {"stats", "rss_stats", "new", "rss_new", "failed"})
        IN  \A p \in 1..(Len(out) - 1) :
                out[p].sec = "failed" => out[p + 1].sec = "failed"

\* Reversed order, with titles and with failed lines split over two batches.
C5_Witness ==
    /\ Returned
    /\ reverse_content_order
    /\ Count(Join(batches), {"title"}) > 0
    /\ \E k \in 2..Len(batches) :
          /\ Count(batches[k - 1], {"failed_line"}) > 0
          /\ Count(batches[k], {"failed_line"}) > 0

\* ---------------------------------------------------------------------------
\* C6, C9: header, footer and the empty report
\* ---------------------------------------------------------------------------
Plain(k, text, len) ==
    [k |-> k, sec |-> text, g |-> 0, n |-> 0, orig |-> <<0, 0>>, len |-> len]

StatedHeader ==
    IF format_type = "feishu" THEN <<>> ELSE <<Plain("header", "", HeaderLen)>>

StatedFooter ==
    <<Plain("footer", "", FooterLen)>>
        \o (IF update_info THEN <<Plain("version", "", VersionLen)>> ELSE <<>>)

StatedPlaceholder ==
    CASE mode = "incremental" ->
             Plain("placeholder", "no new matches in incremental mode", PlaceholderLen)
      [] mode = "current" ->
             Plain("placeholder", "no matches in current-list mode", PlaceholderLen)
      [] OTHER -> Plain("placeholder", "no matches", PlaceholderLen)

\* C6: a report with empty stats, new_titles and failed_ids returns exactly
\* one batch, header + the placeholder sentence of the mode + footer, with no
\* section banner, whatever the byte budget.
C6_EmptyReport ==
    (/\ Returned
     /\ report_data.stats = <<>>
     /\ report_data.new_titles = <<>>
     /\ report_data.failed_ids = <<>>) =>
        batches = <<StatedHeader \o <<StatedPlaceholder>> \o StatedFooter>>

\* The incremental placeholder batch, returned although it is over the budget.
C6_Witness ==
    /\ Returned
    /\ mode = "incremental"
    /\ Len(batches) = 1
    /\ Count(batches[1], {"placeholder"}) = 1
    /\ OverBudget(batches[1])

StartsWith(b, h) == Len(b) >= Len(h) /\ SubSeq(b, 1, Len(h)) = h

EndsWith(b, f) ==
    Len(b) >= Len(f) /\ SubSeq(b, Len(b) - Len(f) + 1, Len(b)) = f

\* C9: every returned batch starts with the base header and ends with the
\* base footer of the call; with update_info the footer of every batch ends
\* with the version notice.
C9_HeaderFooter ==
    Returned =>
        \A k \in 1..Len(batches) :
            /\ Len(batches[k]) >= Len(StatedHeader) + Len(StatedFooter)
            /\ StartsWith(batches[k], StatedHeader)
            /\ EndsWith(batches[k], StatedFooter)
            /\ update_info => batches[k][Len(batches[k])].k = "version"
            /\ Count(batches[k], {"header"}) = Len(StatedHeader)
            /\ Count(batches[k], {"footer", "version"}) = Len(StatedFooter)

\* Several batches of a format that has a header, with the version notice.
C9_Witness ==
    /\ Returned
    /\ update_info
    /\ format_type # "feishu"
    /\ Len(batches) >= 3

\* ---------------------------------------------------------------------------
\* C7: the oversized atomic unit
\* ---------------------------------------------------------------------------
\* The report has a single WordStat whose word header + first title line is
\* larger than max_bytes on its own.
SingleOversizedWordStat ==
    /\ Len(report_data.stats) = 1
    /\ GroupHeaderLen + format_title_for_platform(report_data.stats[1].titles[1])
           + (IF Len(report_data.stats[1].titles) > 1 THEN NewlineLen ELSE 0)
         > max_bytes

StatedUnitBatch ==
    StatedHeader
        \o <<[k |-> "banner", sec |-> "stats", g |-> 0, n |-> 0,
              orig |-> <<0, 0>>, len |-> BannerLen],
             [k |-> "group", sec |-> "stats", g |-> 1, n |-> 0,
              orig |-> <<0, 0>>, len |-> GroupHeaderLen],
             [k |-> "title", sec |-> "stats", g |-> 1, n |-> 1,
              orig |-> <<1, 1>>,
              len |-> format_title_for_platform(report_data.stats[1].titles[1])
                  + (IF Len(report_data.stats[1].titles) > 1
                     THEN NewlineLen ELSE 0)]>>
        \o StatedFooter

\* C7: for a single WordStat whose atomic unit alone exceeds max_bytes the
\* call returns, exactly one batch carries the unit, and that batch is header
\* + stats banner + the unit + footer.
C7_OversizedUnit ==
    (Returned /\ SingleOversizedWordStat) =>
        LET carrying == {k \in 1..Len(batches) :
                \E p \in 1..Len(batches[k]) :
                    /\ batches[k][p].sec = "stats"
                    /\ batches[k][p].k = "title"
                    /\ batches[k][p].n = 1}
        IN  /\ Cardinality(carrying) = 1
            /\ \A k \in carrying : batches[k] = StatedUnitBatch

\* The report is nothing but the single oversized WordStat with one title.
C7_Witness ==
    /\ Returned
    /\ SingleOversizedWordStat
    /\ Len(report_data.stats[1].titles) = 1
    /\ report_data.new_titles = <<>> /\ report_data.failed_ids = <<>>
    /\ rss_items = <<>> /\ rss_new_items = <<>>
    /\ \E k \in 1..Len(batches) : batches[k] = StatedUnitBatch

\* ---------------------------------------------------------------------------
\* C8: the separator step
\* ---------------------------------------------------------------------------
StatedSeparator(sec, g) ==
    [k |-> "separator", sec |-> sec, g |-> g, n |-> 0, orig |-> <<0, 0>>,
     len |-> SepLen]

\* What the separator step after group i may do: leave the finished batches
\* alone, and append the separator to the current batch exactly when
\* byteLen(current + separator) + byteLen(footer) < max_bytes.
SeparatorStepAsStated ==
    pc = "separator" =>
        /\ batches' = batches
        /\ current_batch_has_content' = current_batch_has_content
        /\ IF ByteLen(current_batch) + SepLen + ByteLen(StatedFooter) < max_bytes
           THEN current_batch' =
                    Append(current_batch, StatedSeparator(Pipeline[sidx], i))
           ELSE current_batch' = current_batch

\* No separator follows the last group of its section.
NoSeparatorAfterLastGroup(b) ==
    \A p \in 1..Len(b) :
        b[p].k = "separator" =>
            b[p].g < (IF b[p].sec = "stats" THEN Len(report_data.stats)
                      ELSE Len(rss_items))

\* C8: the inter-group separator step never closes a batch: it appends the
\* separator to the current batch only if it fits strictly under max_bytes
\* with the footer and omits it otherwise, leaving the finished batches
\* unchanged; no separator is appended after the last group of a section.
C8_SeparatorNeverCloses ==
    /\ [][SeparatorStepAsStated]_vars
    /\ [](/\ NoSeparatorAfterLastGroup(current_batch)
          /\ \A k \in 1..Len(batches) : NoSeparatorAfterLastGroup(batches[k]))

\* The separator after the first of two groups was omitted for lack of room:
\* the next unit is about to be placed behind a title, and a batch will close.
C8_Witness ==
    /\ pc = "unit"
    /\ i = 2
    /\ Pipeline[sidx] \in StatsSections
    /\ current_batch[Len(current_batch)].k = "title"
    /\ current_batch_has_content
    /\ ByteLen(current_batch) + ByteLen(StatedFooter) < max_bytes

\* ---------------------------------------------------------------------------
\* Channel results (DispatchSpec)
\* ---------------------------------------------------------------------------
\* The channels that fan out over an account list.
StatedMultiAccountChannels ==
    {"feishu", "dingtalk", "wework", "telegram", "ntfy", "bark", "slack"}

\* Results, in order, of the accounts attempted for channel c.
ResultsOf(c) ==
    LET OfChannel(a) == a.channel = c
        mine == SelectSeq(attempts, OfChannel)
    IN  [n \in 1..Len(mine) |-> mine[n].result]

\* C10: in dispatch_all and in dispatch_rss, the entry of every multi-account
\* channel is the logical OR of the results of the accounts attempted for it:
\* true iff the send of at least one attempted account returned true, false
\* when all returned false or no account was attempted.
C10_ChannelResultIsOr ==
    \A c \in DOMAIN results \cap StatedMultiAccountChannels :
        results[c] = (\E n \in 1..Len(ResultsOf(c)) : ResultsOf(c)[n])

\* dispatch_all has returned; the first feishu account failed, the second
\* succeeded, and the feishu entry is true.
C10_Witness ==
    /\ dpc = "returned"
    /\ call = "dispatch_all"
    /\ "feishu" \in DOMAIN results
    /\ ResultsOf("feishu") = <<FALSE, TRUE>>
    /\ results["feishu"]

\* ---------------------------------------------------------------------------
\* C11: configuration errors (DispatchSpec)
\* ---------------------------------------------------------------------------
ReturnedFrom(entry) == dpc = "returned" /\ call = entry

\* The account list a key stands for.
Parsed(key) == parse_multi_account_config(config[key])

\* The paired credential lists of channel c have unequal lengths.
StatedUnequalPairs(c) ==
    CASE c = "telegram" ->
            /\ Parsed("TELEGRAM_BOT_TOKEN") # <<>>
            /\ Parsed("TELEGRAM_CHAT_ID") # <<>>
            /\ Len(Parsed("TELEGRAM_BOT_TOKEN")) # Len(Parsed("TELEGRAM_CHAT_ID"))
      [] c = "ntfy" ->
            /\ Parsed("NTFY_TOPIC") # <<>>
            /\ Parsed("NTFY_TOKEN") # <<>>
            /\ Len(Parsed("NTFY_TOPIC")) # Len(Parsed("NTFY_TOKEN"))
      [] OTHER -> FALSE

\* A required credential of channel c parses to an empty account list.
StatedEmptyRequired(c) ==
    CASE c = "telegram" ->
            Parsed("TELEGRAM_BOT_TOKEN") = <<>> \/ Parsed("TELEGRAM_CHAT_ID") = <<>>
      [] OTHER -> Parsed(AccountKey(c)) = <<>>

StatedConfigurationError(c) == StatedUnequalPairs(c) \/ StatedEmptyRequired(c)

\* The settings the channel needs at least are all non-empty strings.
StatedMinimumConfiguration(c) ==
    CASE c = "telegram" ->
            config["TELEGRAM_BOT_TOKEN"] # <<>> /\ config["TELEGRAM_CHAT_ID"] # <<>>
      [] c = "ntfy" -> config["NTFY_SERVER_URL"] # <<>> /\ config["NTFY_TOPIC"] # <<>>
      [] c = "email" ->
            /\ config["EMAIL_FROM"] # <<>>
            /\ config["EMAIL_PASSWORD"] # <<>>
            /\ config["EMAIL_TO"] # <<>>
      [] OTHER -> config[AccountKey(c)] # <<>>

\* C11 as stated: a channel whose paired credential lists have unequal
\* lengths, or whose required credential parses to an empty account list, has
\* no key in the mapping dispatch_all returns.
C11_AsStated ==
    ReturnedFrom("dispatch_all") =>
        \A c \in StatedMultiAccountChannels :
            StatedConfigurationError(c) => c \notin DOMAIN results

\* C11 (amended): a channel whose settings are non-empty strings but whose
\* paired credential lists have unequal lengths, or whose required credential
\* parses to an empty account list, is in the mapping dispatch_all returns
\* with value false, and no account of it was attempted.
C11_ConfigurationErrorIsFalse ==
    ReturnedFrom("dispatch_all") =>
        \A c \in StatedMultiAccountChannels :
            (StatedMinimumConfiguration(c) /\ StatedConfigurationError(c)) =>
                /\ c \in DOMAIN results
                /\ ~results[c]
                /\ ResultsOf(c) = <<>>

\* dispatch_all has returned for two Telegram tokens and one chat id, together
\* with a feishu setting that holds separators only.
C11_Witness ==
    /\ ReturnedFrom("dispatch_all")
    /\ Len(Parsed("TELEGRAM_BOT_TOKEN")) = 2
    /\ Len(Parsed("TELEGRAM_CHAT_ID")) = 1
    /\ config["FEISHU_WEBHOOK_URL"] = <<";">>
    /\ results = [c \in {"feishu", "telegram"} |-> FALSE]

\* ---------------------------------------------------------------------------
\* C12: unequal paired lists on both entry points (DispatchSpec)
\* ---------------------------------------------------------------------------
\* The dispatch is at a transport request for an account of channel c, or has
\* completed one: the sender call of dispatch_all, requests.post of
\* dispatch_rss.
SendMade(c) ==
    IF call = "dispatch_rss"
    THEN \/ dpc = "batch" /\ ChannelOrder[ch] = c
         \/ \E n \in 1..Len(ResultsOf(c)) : ResultsOf(c)[n]
    ELSE ResultsOf(c) # <<>>

\* C12: whenever the paired credential lists of a channel have unequal lengths
\* (Telegram token vs chat id; ntfy topic vs a non-empty token list), no
\* transport send is made for any account of that channel, in dispatch_all
\* and in dispatch_rss.
C12_UnequalPairsSkipped ==
    \A c \in {"telegram", "ntfy"} : StatedUnequalPairs(c) => ~SendMade(c)

\* The same statement for dispatch_all alone.
C12_DispatchAllOnly ==
    call = "dispatch_all" => C12_UnequalPairsSkipped

\* ---------------------------------------------------------------------------
\* C13: keys of the mapping of dispatch_all (DispatchSpec)
\* ---------------------------------------------------------------------------
StatedChannels ==
    {"feishu", "dingtalk", "wework", "telegram", "ntfy", "bark", "slack",
     "email"}

\* C13: the mapping returned by dispatch_all has a key for a channel iff the
\* channel's minimum required configuration is non-empty (feishu, dingtalk,
\* wework, bark, slack: the URL; telegram: bot token and chat id; ntfy: server
\* URL and topic; email: from, password and to).  During the whole call a
\* channel without that configuration has no key and no account of it is
\* attempted.
C13_KeysAreConfiguredChannels ==
    call = "dispatch_all" =>
        /\ \A c \in StatedChannels :
              ~StatedMinimumConfiguration(c) =>
                  /\ c \notin DOMAIN results
                  /\ ResultsOf(c) = <<>>
                  /\ ~(dpc \in {"account", "batch"} /\ ChannelOrder[ch] = c)
        /\ dpc = "returned" =>
              DOMAIN results = {c \in StatedChannels : StatedMinimumConfiguration(c)}

\* dispatch_all has returned for a configuration with the three email
\* settings and a Telegram bot token without chat id: email is the only key.
C13_Witness ==
    /\ ReturnedFrom("dispatch_all")
    /\ config["TELEGRAM_BOT_TOKEN"] # <<>>
    /\ config["TELEGRAM_CHAT_ID"] = <<>>
    /\ DOMAIN results = {"email"}

\* ---------------------------------------------------------------------------
\* C14: a mapping is always returned (DispatchSpec)
\* ---------------------------------------------------------------------------
\* Every account attempt failed and the email send, if any, returned false.
TotalFailure ==
    /\ \A n \in 1..Len(attempts) : ~attempts[n].result
    /\ "email" \in DOMAIN results => ~results["email"]

\* Some step of the call in progress can be taken: the call is never stuck
\* short of its return.
DispatchProgress ==
    /\ dpc = "channel" =>
          ENABLED (RejectChannel \/ StartChannel \/ SendEmail \/ Return)
    /\ dpc = "account" =>
          ENABLED (SendAccount \/ SplitContent \/ FinishChannel)
    /\ dpc = "batch" => ENABLED PostBatch
    /\ dpc = "response" => ENABLED RaiseForStatus

AccountEnds(ok) ==
    /\ dpc' = "account"
    /\ account_idx' = account_idx + 1
    /\ Len(attempts') = Len(attempts) + 1
    /\ SubSeq(attempts', 1, Len(attempts)) = attempts
    /\ attempts'[Len(attempts')].index = account_idx
    /\ attempts'[Len(attempts')].result = ok

\* The step stays with the current account and its batch list.
SameAccount ==
    /\ account_idx' = account_idx
    /\ rss_batches' = rss_batches
    /\ attempts' = attempts

StatedBatchStep ==
    \* the first batch is sent first
    /\ (dpc = "account" /\ dpc' = "batch") =>
          batch_idx' = 1 /\ rss_batches' >= 1
    \* a request either returns a response for the same batch or fails
    /\ dpc = "batch" =>
          \/ dpc' = "response" /\ batch_idx' = batch_idx /\ SameAccount
          \/ AccountEnds(FALSE)
    \* a response that is not a success aborts the remaining batches
    /\ (dpc = "response" /\ resp = "failure") => AccountEnds(FALSE)
    \* after a success the next batch in sequence is sent, none twice
    /\ (dpc = "response" /\ resp = "success" /\ batch_idx < rss_batches) =>
          dpc' = "batch" /\ batch_idx' = batch_idx + 1 /\ SameAccount
    /\ (dpc = "response" /\ resp = "success" /\ batch_idx = rss_batches) =>
          AccountEnds(TRUE)
    \* an account is marked true only after the success of its last batch
    /\ (call = "dispatch_rss" /\ Len(attempts') > Len(attempts)
            /\ attempts'[Len(attempts')].result) =>
          dpc = "response" /\ resp = "success" /\ batch_idx = rss_batches

\* C15: for a single account of dispatch_rss the batches are sent in sequence
\* order, starting with the first; the first batch whose send fails (the
\* request raises or the response is not a success) ends the account with
\* false and none of its remaining batches is sent; the account is marked
\* true only if every batch was sent successfully; no batch is sent twice.
C15_BatchesInOrderFirstFailureAborts == [][StatedBatchStep]_vars

\* The response to the first of two batches is not a success: the second
\* batch is still to be sent.
C15_Witness ==
    /\ call = "dispatch_rss"
    /\ dpc = "response"
    /\ resp = "failure"
    /\ batch_idx = 1
    /\ rss_batches = 2

\* ---------------------------------------------------------------------------
\* C16: failures are isolated (DispatchSpec)
\* ---------------------------------------------------------------------------
\* Positions, in order, of the accounts attempted for channel c.
IndicesOf(c) ==
    LET OfChannel(a) == a.channel = c
        mine == SelectSeq(attempts, OfChannel)
    IN  [n \in 1..Len(mine) |-> mine[n].index]

InAccountLoop == dpc \in {"account", "batch", "response"}

StatedIsolationStep ==
    \* inside the loop of a channel the accounts before the current one have
    \* been attempted once each, whatever their results
    /\ InAccountLoop =>
          /\ account_idx <= loop_len + 1
          /\ IndicesOf(ChannelOrder[ch]) = [n \in 1..(account_idx - 1) |-> n]
    \* the entry of the channel is written after the last kept account
    /\ (InAccountLoop /\ results' # results) => account_idx = loop_len + 1
    \* every channel with its minimum configuration has been gone through,
    \* whatever the earlier channels returned
    /\ (dpc = "channel" /\ dpc' = "returned") =>
          DOMAIN results =
              {c \in StatedChannels : StatedMinimumConfiguration(c)}

\* C16: in one dispatch (dispatch_all, or dispatch_rss with items) every
\* account kept after capping is attempted exactly once, whatever the results
\* of the accounts before it, and every configured channel is gone through,
\* whatever the results of the channels before it: nothing stops after the
\* first success or failure.
C16_FailuresAreIsolated == [][StatedIsolationStep]_vars

\* dispatch_all has returned: the first feishu account failed and the second
\* was attempted all the same; feishu is false and dingtalk was still sent.
C16_Witness ==
    /\ ReturnedFrom("dispatch_all")
    /\ ResultsOf("feishu") = <<FALSE, FALSE>>
    /\ IndicesOf("feishu") = <<1, 2>>
    /\ ResultsOf("dingtalk") = <<TRUE>>
    /\ results = [c \in {"feishu", "dingtalk"} |-> c = "dingtalk"]

\* ---------------------------------------------------------------------------
\* C17: order of channels, accounts and batches (DispatchSpec)
\* ---------------------------------------------------------------------------
StatedOrder ==
    <<"feishu", "dingtalk", "wework", "telegram", "ntfy", "bark", "slack",
      "email">>

StatedPosition(c) == CHOOSE n \in 1..Len(StatedOrder) : StatedOrder[n] = c

\* Attempt a comes before attempt b in the stated order.
StatedBefore(a, b) ==
    \/ StatedPosition(a.channel) < StatedPosition(b.channel)
    \/ a.channel = b.channel /\ a.index < b.index

StatedOrderOfAttempts ==
    \* the last attempt made comes after the one before it (channels in the
    \* fixed order, accounts of a channel by position), and its account is
    \* the entry of the configured list at its position
    /\ attempts # <<>> =>
          LET n == Len(attempts)
              list == Parsed(AccountKey(attempts[n].channel))
          IN  /\ n > 1 => StatedBefore(attempts[n - 1], attempts[n])
              /\ attempts[n].index <= Len(list)
              /\ attempts[n].account = list[attempts[n].index]
    \* an entry is written only after the entries of all configured channels
    \* in front of it, and the channel being sent comes after every entry
    /\ \A k \in 1..Len(StatedOrder) :
          StatedOrder[k] \in DOMAIN results =>
              /\ \A l \in 1..(k - 1) :
                    StatedMinimumConfiguration(StatedOrder[l]) =>
                        StatedOrder[l] \in DOMAIN results
              /\ InAccountLoop =>
                    \A l \in 1..k : StatedOrder[l] # ChannelOrder[ch]
    \* one batch at a time, inside the list returned by the segmentation
    /\ dpc \in {"batch", "response"} =>
          batch_idx >= 1 /\ batch_idx <= rss_batches

StatedOrderOfSteps ==
    \* attempts are only added at the end of the log, one at a time
    /\ attempts' # attempts =>
          /\ Len(attempts') = Len(attempts) + 1
          /\ SubSeq(attempts', 1, Len(attempts)) = attempts
    /\ (dpc = "account" /\ dpc' = "batch") => batch_idx' = 1
    /\ (dpc = "response" /\ dpc' = "batch") => batch_idx' = batch_idx + 1
    \* a batch is sent only after the response to the one before it
    /\ dpc' = "batch" => dpc \in {"account", "response"}

\* C17: dispatch is sequential and ordered: channels are attempted in the
\* order feishu, dingtalk, wework, telegram, ntfy, bark, slack, email; within
\* a channel the accounts are attempted in the order of the configured list;
\* within an account the batches are sent in the order of the segmentation,
\* each after the one before it has returned.
C17_SequentialOrder == []StatedOrderOfAttempts /\ [][StatedOrderOfSteps]_vars

\* dispatch_rss is at the second batch of the second dingtalk account, after
\* the feishu account and the first dingtalk account.
C17_Witness ==
    /\ call = "dispatch_rss"
    /\ dpc = "batch"
    /\ batch_idx = 2
    /\ Len(attempts) = 2
    /\ attempts[1].channel = "feishu"
    /\ attempts[2].channel = "dingtalk"
    /\ ChannelOrder[ch] = "dingtalk"
    /\ account_idx = 2

\* ---------------------------------------------------------------------------
\* C18: the cap on accounts (DispatchSpec)
\* ---------------------------------------------------------------------------
\* Accounts, in order, attempted for channel c, and the credentials used
\* with them.
AccountsOf(c) ==
    LET OfChannel(a) == a.channel = c
        mine == SelectSeq(attempts, OfChannel)
    IN  [n \in 1..Len(mine) |-> mine[n].account]

PartnersOf(c) ==
    LET OfChannel(a) == a.channel = c
        mine == SelectSeq(attempts, OfChannel)
    IN  [n \in 1..Len(mine) |-> mine[n].partner]

\* The first `cap` entries of a list, the whole list when it has no more.
StatedFirst(list, cap) ==
    IF Len(list) > cap THEN [n \in 1..cap |-> list[n]] ELSE list

\* The call has returned after going through the channels.
ReturnedWithContent == dpc = "returned" /\ ch # 0

\* C18: at most max_accounts (MAX_ACCOUNTS_PER_CHANNEL, 3 when not set)
\* accounts are attempted per channel in one dispatch.  For a channel whose
\* configuration has no error, the accounts attempted are the first
\* max_accounts entries of the configured list, in order, when the list is
\* longer, and the whole list otherwise; the chat ids of Telegram and the
\* tokens of ntfy are cut to the same length.
C18_AccountCap ==
    /\ \A c \in StatedMultiAccountChannels : Len(AccountsOf(c)) <= max_accounts
    /\ ReturnedWithContent =>
          \A c \in StatedMultiAccountChannels :
              (StatedMinimumConfiguration(c) /\ ~StatedConfigurationError(c)) =>
                  /\ AccountsOf(c) =
                        StatedFirst(Parsed(AccountKey(c)), max_accounts)
                  /\ c = "telegram" =>
                        PartnersOf(c) =
                            StatedFirst(Parsed("TELEGRAM_CHAT_ID"), max_accounts)
                  /\ (c = "ntfy" /\ Parsed("NTFY_TOKEN") # <<>>) =>
                        PartnersOf(c) =
                            StatedFirst(Parsed("NTFY_TOKEN"), max_accounts)

\* dispatch_all has returned with the default cap for four feishu webhooks:
\* the first three were attempted.
C18_Witness ==
    /\ ReturnedFrom("dispatch_all")
    /\ max_accounts = DefaultMaxAccounts
    /\ Len(Parsed("FEISHU_WEBHOOK_URL")) = 4
    /\ AccountsOf("feishu") = <<<<"u1">>, <<"u2">>, <<"u3">>>>

\* ---------------------------------------------------------------------------
\* C19: paired credentials (DispatchSpec)
\* ---------------------------------------------------------------------------
\* Entry k of a list, the empty string when the list has no entry k.
StatedEntry(list, k) == IF k <= Len(list) THEN list[k] ELSE <<>>

\* C19: every Telegram send for account position k uses bot token k together
\* with chat id k of the configured lists, and every ntfy send for position k
\* uses topic k together with token k (no token when none is configured at
\* that position): a credential is never used with one of another position,
\* with or without capping, in dispatch_all and in dispatch_rss.
C19_PairedByIndex ==
    \A n \in 1..Len(attempts) :
        LET a == attempts[n]
        IN  /\ a.channel = "telegram" =>
                  /\ a.account # <<>> /\ a.partner # <<>>
                  /\ a.account = StatedEntry(Parsed("TELEGRAM_BOT_TOKEN"), a.index)
                  /\ a.partner = StatedEntry(Parsed("TELEGRAM_CHAT_ID"), a.index)
            /\ a.channel = "ntfy" =>
                  /\ a.account # <<>>
                  /\ a.account = StatedEntry(Parsed("NTFY_TOPIC"), a.index)
                  /\ a.partner = StatedEntry(Parsed("NTFY_TOKEN"), a.index)

\* The second Telegram account was sent with the second bot token and the
\* second chat id.
C19_Witness ==
    \E n \in 1..Len(attempts) :
        /\ attempts[n].channel = "telegram"
        /\ attempts[n].index = 2
        /\ attempts[n].account = <<"t2">>
        /\ attempts[n].partner = <<"c2">>

\* ---------------------------------------------------------------------------
\* C20: parsing of account lists (ParseSpec)
\* ---------------------------------------------------------------------------
\* " a ;; b ;"
StatedExample == <<" ", "a", " ", ";", ";", " ", "b", " ", ";">>

TextOf(s) == SelectSeq(s, LAMBDA x : x \notin {";", " "})

OnlySpaces(s) == \A k \in 1..Len(s) : s[k] = " "

\* A non-empty string without separator and without white space at its ends.
StatedTrimmed(t) ==
    /\ t # <<>>
    /\ t[1] # " " /\ t[Len(t)] # " "
    /\ \A k \in 1..Len(t) : t[k] # ";"

\* t stands in raw between two separators (or the ends of raw), with nothing
\* but white space around it.
StatedTokenOf(raw, t) ==
    \E p \in 1..Len(raw) :
        /\ p + Len(t) - 1 <= Len(raw)
        /\ SubSeq(raw, p, p + Len(t) - 1) = t
        /\ \E q \in 0..(p - 1) :
              /\ q = 0 \/ raw[q] = ";"
              /\ OnlySpaces(SubSeq(raw, q + 1, p - 1))
        /\ \E r \in (p + Len(t))..(Len(raw) + 1) :
              /\ r = Len(raw) + 1 \/ raw[r] = ";"
              /\ OnlySpaces(SubSeq(raw, p + Len(t), r - 1))

\* The account list is what the stated parsing leaves of raw, up to the cap.
StatedParseOf(raw, list) ==
    /\ \A k \in 1..Len(list) :
          StatedTrimmed(list[k]) /\ StatedTokenOf(raw, list[k])
    /\ LET text == TextOf(Join(list))
       IN  /\ Len(text) <= Len(TextOf(raw))
           /\ text = SubSeq(TextOf(raw), 1, Len(text))
           /\ Len(list) < max_accounts => text = TextOf(raw)

\* C20: the account list of a channel is its raw setting split on ";", each
\* token trimmed, empty tokens dropped, order preserved: " a ;; b ;" gives
\* "a", "b"; a setting without text gives no account; and every account
\* handed to a sender is a non-empty trimmed string.
C20_ParseAccounts ==
    /\ (InAccountLoop /\ ChannelOrder[ch] = "feishu") =>
          /\ StatedParseOf(config["FEISHU_WEBHOOK_URL"], accounts)
          /\ accounts # <<>>
          /\ config["FEISHU_WEBHOOK_URL"] = StatedExample =>
                accounts = << <<"a">>, <<"b">> >>
    /\ dpc = "returned" =>
          (TextOf(config["FEISHU_WEBHOOK_URL"]) = <<>>) = (attempts = <<>>)
    /\ \A n \in 1..Len(attempts) : StatedTrimmed(attempts[n].account)

\* dispatch_all has returned for " a ;; b ;": the accounts "a" and "b" were
\* attempted, in that order.
C20_Witness ==
    /\ ReturnedFrom("dispatch_all")
    /\ config["FEISHU_WEBHOOK_URL"] = StatedExample
    /\ AccountsOf("feishu") = << <<"a">>, <<"b">> >>

\* ---------------------------------------------------------------------------
\* C21: no deduplication between calls
\* ---------------------------------------------------------------------------
\* The OR of the outcomes of the sends made to channel c by the call in
\* progress.
StatedOutcome(c) ==
    \E n \in 1..Len(attempts) :
        attempts[n].channel = c /\ attempts[n].result

EntryOf(p) ==
    IF p.sec = "new"
    THEN report_data.new_titles[p.orig[1]].titles[p.orig[2]]
    ELSE rss_new_items[p.orig[1]].titles[p.orig[2]]

\* A title line of a new-items section is rendered without the "new" marker.
Unmarked(b) ==
    \A k \in 1..Len(b) :
        (b[k].k = "title" /\ b[k].sec \in NewSections) =>
            b[k].len = EntryOf(b[k]).len

\* C22: no step of split_content_into_batches changes report_data, rss_items
\* or rss_new_items (nor any other input), so every entry keeps its is_new
\* value; the title lines of the new-items sections are rendered from copies
\* with is_new false, that is without the "new" marker, whatever the flag of
\* the entry.
C22_ReportUnchanged ==
    /\ [](Unmarked(current_batch)
            /\ \A k \in 1..Len(batches) : Unmarked(batches[k]))
    /\ [][inputs' = inputs]_vars

\* The call has returned several batches for a report with an entry flagged
\* new in the hotlist new-items section and one in the RSS new-items section.
C22_Witness ==
    /\ Returned
    /\ Len(batches) >= 2
    /\ report_data.new_titles # <<>> /\ rss_new_items # <<>>
    /\ report_data.new_titles[1].titles[1].is_new
    /\ rss_new_items[1].titles[1].is_new

\* ---------------------------------------------------------------------------
\* C23: the account label
\* ---------------------------------------------------------------------------
\* Number of accounts the returned call has attempted for channel c.
AttemptedFor(c) ==
    Cardinality({n \in 1..Len(attempts) : attempts[n].channel = c})

\* The label as stated: empty for a channel with exactly one attempted
\* account, the 1-based position otherwise.
StatedLabel(a) ==
    IF AttemptedFor(a.channel) = 1 THEN ""
    ELSE "account" \o ToString(a.index)

\* C23: when dispatch_all or dispatch_rss has returned, the label of every
\* account attempt is "" iff the channel had exactly one attempted account,
\* and names the account's 1-based position otherwise.
C23_LabelByPosition ==
    dpc = "returned" =>
        \A n \in 1..Len(attempts) :
            attempts[n].label = StatedLabel(attempts[n])

\* The same statement for every account loop except the Telegram loop of
\* dispatch_rss.
C23_ExceptRssTelegram ==
    dpc = "returned" =>
        \A n \in 1..Len(attempts) :
            ~(call = "dispatch_rss" /\ attempts[n].channel = "telegram") =>
                attempts[n].label = StatedLabel(attempts[n])

\* ---------------------------------------------------------------------------
\* C24: the push-window gate
\* ---------------------------------------------------------------------------
\* The gate refuses, as stated: window enabled and time outside the range, or
\* once-per-day enabled and a push recorded today.
StatedRefusal ==
    \/ cfg.PUSH_WINDOW_ENABLED /\ ~in_time_range
    \/ cfg.ONCE_PER_DAY /\ push_record

\* The gate refuses: the window is enabled, and the time is outside the range
\* or once-per-day is enabled and a push is recorded today.
WindowRefusal ==
    /\ cfg.PUSH_WINDOW_ENABLED
    /\ \/ ~in_time_range
       \/ cfg.ONCE_PER_DAY /\ push_record

\* No step calls dispatch_all or sends, and a return is a return of False.
NoDispatchStep ==
    /\ call' = "none"
    /\ attempts' = <<>>
    /\ gpc' = "done" => returned' = FALSE

\* C24 as stated: from a state in which the stated refusal holds no step
\* calls dispatch_all or sends, and the function returns only False.
C24_AsStated == [][StatedRefusal => NoDispatchStep]_vars

\* C24: from a state in which the push window is enabled and either the time
\* is outside the configured range or once-per-day is enabled and a push is
\* recorded today, no step calls dispatch_all or sends, and
\* _send_notification_if_needed returns only False; dispatch_all is in
\* progress or has returned only if the gate did not refuse.
C24_GateRefusesWithoutDispatch ==
    /\ []((call # "none" /\ gpc # "done") => ~WindowRefusal)
    /\ [][WindowRefusal => NoDispatchStep]_vars

\* The run has returned False without a call of dispatch_all although
\* notifications are enabled, a channel is configured and there is content:
\* the window is enabled, the time is in range, and a push is recorded today.
C24_Witness ==
    /\ gpc = "done" /\ returned = FALSE
    /\ call = "none" /\ attempts = <<>>
    /\ cfg.ENABLE_NOTIFICATION /\ has_notification /\ has_any_content
    /\ cfg.PUSH_WINDOW_ENABLED /\ in_time_range
    /\ cfg.ONCE_PER_DAY /\ push_record

\* ---------------------------------------------------------------------------
\* C25: the re-entry context of a new batch
\* ---------------------------------------------------------------------------
\* The unit about to be placed: group header + first title line, a remaining
\* title line, or a failed-source line.
StatedUnit ==
    LET sec == Pipeline[sidx]
    IN  CASE pc = "unit" ->
                LET titles == Groups(sec)[i].titles
                IN  GroupHeader(sec, i)
                        \o TitleLine(sec, i, 1, Shown(sec, titles[1]),
                                     Len(titles) = 1)
          [] pc = "title" ->
                LET titles == Groups(sec)[i].titles
                IN  TitleLine(sec, i, j, Shown(sec, titles[j]),
                              j = Len(titles))
          [] pc = "failed_line" -> FailedLine(j)

\* header + section banner (+ group header for a non-first item) + the unit.
StatedRestart ==
    LET sec == Pipeline[sidx]
    IN  base_header \o SectionBanner(sec)
            \o (IF pc = "title" THEN GroupHeader(sec, i) ELSE <<>>)
            \o StatedUnit

StatedRestartStep ==
    (/\ pc \in {"unit", "title", "failed_line"}
     /\ current_batch_has_content
     /\ ByteLen(current_batch) + ByteLen(StatedUnit) + ByteLen(base_footer)
            >= max_bytes) =>
        /\ batches' = Append(batches, current_batch \o base_footer)
        /\ current_batch' = StatedRestart

\* In batch b every title line comes after the banner of its section and the
\* header of its own group, every failed-source line after the failed-sources
\* banner (where the format has one).
UnderItsHeaders(b) ==
    \A p \in 1..Len(b) :
        /\ b[p].k = "title" =>
              /\ \E q \in 1..(p - 1) : b[q].k = "banner" /\ b[q].sec = b[p].sec
              /\ \E q \in 1..(p - 1) :
                    b[q].k = "group" /\ b[q].sec = b[p].sec /\ b[q].g = b[p].g
        /\ (b[p].k = "failed_line" /\ SectionBanner("failed") # <<>>) =>
              \E q \in 1..(p - 1) : b[q].k = "banner" /\ b[q].sec = "failed"

FitChecks ==
    {"banner", "unit", "title", "separator", "failed_header", "failed_line"}

\* The candidate of the fit check about to be made.
StatedCandidate ==
    CASE pc = "banner" -> SectionBanner(Pipeline[sidx])
      [] pc = "failed_header" -> SectionBanner("failed")
      [] pc = "separator" -> Separator(Pipeline[sidx], i)
      [] OTHER -> StatedUnit

\* byteLen(current + candidate) + byteLen(footer)
StatedTotal ==
    ByteLen(current_batch \o StatedCandidate) + ByteLen(base_footer)

\* The candidate is appended to the current batch and no batch is closed.
AppendedStep ==
    /\ current_batch' = current_batch \o StatedCandidate
    /\ batches' = batches

\* Where the batch has content (so that starting a new batch differs from
\* appending) the candidate is appended iff the total is below max_bytes; a
\* candidate that fits is appended in any case.
StatedFitStep ==
    pc \in FitChecks =>
        /\ StatedTotal < max_bytes => AppendedStep
        /\ (current_batch_has_content /\ StatedCandidate # <<>>) =>
              (AppendedStep <=> StatedTotal < max_bytes)

\* C26: at every fit check (section banner, atomic unit, remaining item,
\* separator, failed banner, failed line) the candidate is appended to the
\* current batch iff byteLen(current + candidate) + byteLen(footer) is
\* strictly less than max_bytes; a total of exactly max_bytes does not fit.
C26_StrictFitCheck == [][StatedFitStep]_vars

\* A failed-source line whose total was exactly max_bytes opened a new batch:
\* the closed batch and the line together are exactly max_bytes.
C26_Witness ==
    /\ Returned
    /\ \E k \in 1..(Len(batches) - 1) :
          /\ ByteLen(batches[k]) + FailedLineLen = max_bytes
          /\ \E p \in 1..Len(batches[k + 1]) :
                /\ batches[k + 1][p].k = "failed_line"
                /\ \A q \in 1..(p - 1) :
                      batches[k + 1][q].k \in {"header", "banner"}
                /\ \E q \in 1..Len(batches[k]) :
                      /\ batches[k][q].k = "failed_line"
                      /\ batches[k][q].n + 1 = batches[k + 1][p].n

\* ---------------------------------------------------------------------------
\* C27: the batch list is append-only
\* ---------------------------------------------------------------------------
\* One step leaves the closed batches as they are, or appends one batch: the
\* current batch with the footer or, for the empty report, the placeholder.
AppendOnlyStep ==
    \/ batches' = batches
    \/ /\ Len(batches') = Len(batches) + 1
       /\ SubSeq(batches', 1, Len(batches)) = batches
       /\ batches'[Len(batches')] =
              IF pc = "start"
              THEN base_header \o Placeholder \o base_footer
              ELSE current_batch \o base_footer

\* C27: the output batch list is append-only during segmentation: a closed
\* batch (current + footer) is never modified, removed or reordered by a
\* later step, and each processed unit closes at most one batch.
C27_AppendOnly == [][AppendOnlyStep]_vars

\* Segmentation went on after a batch was closed: three batches were closed one
\* after another and the function returned them.
C27_Witness ==
    /\ Returned
    /\ Len(batches) >= 3

\* ---------------------------------------------------------------------------
\* C28: no empty list and no batch of header and footer only
\* ---------------------------------------------------------------------------
\* The text of the batch is the header followed by the footer.
HeaderFooterOnly(b) == ByteLen(b) = ByteLen(base_header) + ByteLen(base_footer)

\* The parts of the statement that do not depend on the text of a banner: the
\* returned list is not empty, has_content is false only while nothing has
\* been placed, and it is true at finalization.
ContentFlagSound ==
    /\ Returned => batches # <<>>
    /\ ~current_batch_has_content =>
          (pc = "done" \/ (current_batch = base_header /\ batches = <<>>))
    /\ pc = "final" => current_batch_has_content

\* C28: split_content_into_batches never returns an empty list and never
\* emits a batch made of header + footer only; has_content is false only
\* before the first unit is placed and is true at finalization for any report
\* with stats, new_titles or failed_ids.
C28_NeverHeaderFooterOnly ==
    /\ ContentFlagSound
    /\ \A k \in 1..Len(batches) : ~HeaderFooterOnly(batches[k])

\* The statement holds for the formats whose failed-sources banner has a text.
C28_WithFailedBanner ==
    /\ ContentFlagSound
    /\ format_type # "bark" =>
          \A k \in 1..Len(batches) : ~HeaderFooterOnly(batches[k])

\* ---------------------------------------------------------------------------
\* C29: the empty-report test does not look at the RSS lists
\* ---------------------------------------------------------------------------
\* Stats, new_titles and failed_ids are empty and there are RSS items.
RssOnlyReport ==
    /\ report_data.stats = <<>>
    /\ report_data.new_titles = <<>>
    /\ report_data.failed_ids = <<>>
    /\ (rss_items # <<>> \/ rss_new_items # <<>>)

\* The batch holds a piece of an RSS section.
HoldsRss(b) == \E p \in 1..Len(b) : b[p].sec \in {"rss_stats", "rss_new"}

\* C29: the empty-report test looks only at stats, new_titles and failed_ids:
\* when all three are empty the output is exactly the single placeholder batch
\* even if rss_items or rss_new_items are non-empty; no RSS section is entered
\* and no RSS item appears in any batch.
C29_RssIgnoredWhenEmpty ==
    RssOnlyReport =>
        /\ pc \in {"start", "done"}
        /\ current_batch = base_header
        /\ ~HoldsRss(current_batch)
        /\ \A k \in 1..Len(batches) : ~HoldsRss(batches[k])
        /\ Returned => /\ Len(batches) = 1
                       /\ batches[1] = base_header \o Placeholder \o base_footer

\* The placeholder batch was returned for a report that has RSS statistics and
\* new RSS items.
C29_Witness ==
    /\ Returned
    /\ RssOnlyReport
    /\ rss_items # <<>>
    /\ rss_new_items # <<>>
    /\ Len(batches) = 1
    /\ Count(batches[1], {"placeholder"}) = 1

\* ---------------------------------------------------------------------------
\* C30: Telegram pairing is validated before the cap (DispatchSpec)
\* ---------------------------------------------------------------------------
\* C30: in dispatch_all the Telegram token and chat id lists are validated as
\* configured, before the account cap: lists of unequal length are rejected
\* with no send even when the cap would cut both to the same length, and
\* lists of equal length above the cap are accepted and both cut to the cap.
C30_ValidatedBeforeCap ==
    call = "dispatch_all" =>
        LET tokens == Parsed("TELEGRAM_BOT_TOKEN")
            chat_ids == Parsed("TELEGRAM_CHAT_ID")
        IN  /\ (tokens # <<>> /\ chat_ids # <<>>
                  /\ Len(tokens) # Len(chat_ids)) =>
                  /\ AccountsOf("telegram") = <<>>
                  /\ ReturnedWithContent =>
                        /\ "telegram" \in DOMAIN results
                        /\ ~results["telegram"]
            /\ (Len(tokens) = Len(chat_ids) /\ Len(tokens) > max_accounts) =>
                  /\ Len(AccountsOf("telegram")) <= max_accounts
                  /\ ReturnedWithContent =>
                        /\ AccountsOf("telegram") =
                              StatedFirst(tokens, max_accounts)
                        /\ PartnersOf("telegram") =
                              StatedFirst(chat_ids, max_accounts)

\* dispatch_all has returned under a cap of one account for two tokens and one
\* chat id, which the cap would have cut to one of each: nothing was sent.
C30_Witness ==
    /\ ReturnedFrom("dispatch_all")
    /\ ReturnedWithContent
    /\ max_accounts = 1
    /\ Len(Parsed("TELEGRAM_BOT_TOKEN")) = 2
    /\ Len(Parsed("TELEGRAM_CHAT_ID")) = 1
    /\ AccountsOf("telegram") = <<>>
    /\ results = [c \in {"telegram"} |-> FALSE]

\* dispatch_all has returned under a cap of one account for two tokens and two
\* chat ids: the first token was sent with the first chat id.
C30_TruncatedPair ==
    /\ ReturnedFrom("dispatch_all")
    /\ max_accounts = 1
    /\ Len(Parsed("TELEGRAM_BOT_TOKEN")) = 2
    /\ Len(Parsed("TELEGRAM_CHAT_ID")) = 2
    /\ AccountsOf("telegram") = <<<<"t1">>>>
    /\ PartnersOf("telegram") = <<<<"c1">>>>

\* ---------------------------------------------------------------------------
\* C31: the ntfy token list is optional (DispatchSpec)
\* ---------------------------------------------------------------------------
\* C31: for ntfy in dispatch_all the token list is optional: with no token
\* configured every topic within the cap is sent with an empty token; with a
\* non-empty token list its length must equal the number of topics, compared
\* before the cap, otherwise the channel result is false and no topic
\* receives a send.
C31_NtfyTokensOptional ==
    (/\ call = "dispatch_all"
     /\ config["NTFY_SERVER_URL"] # <<>>
     /\ Parsed("NTFY_TOPIC") # <<>>) =>
        LET topics == Parsed("NTFY_TOPIC")
            tokens == Parsed("NTFY_TOKEN")
        IN  /\ tokens = <<>> =>
                  /\ \A n \in 1..Len(PartnersOf("ntfy")) :
                         PartnersOf("ntfy")[n] = <<>>
                  /\ ReturnedWithContent =>
                        AccountsOf("ntfy") = StatedFirst(topics, max_accounts)
            /\ (tokens # <<>> /\ Len(tokens) # Len(topics)) =>
                  /\ AccountsOf("ntfy") = <<>>
                  /\ ReturnedWithContent =>
                        /\ "ntfy" \in DOMAIN results
                        /\ ~results["ntfy"]

\* dispatch_all has returned for two ntfy topics without a token: both topics
\* were sent, each with an empty token.
C31_Witness ==
    /\ ReturnedFrom("dispatch_all")
    /\ Parsed("NTFY_TOKEN") = <<>>
    /\ Len(Parsed("NTFY_TOPIC")) = 2
    /\ Len(AccountsOf("ntfy")) = 2
    /\ PartnersOf("ntfy") = <<<<>>, <<>>>>

\* dispatch_all has returned under a cap of one account for two topics and one
\* token: no topic was sent and the entry of ntfy is false.
C31_UnequalUnderCap ==
    /\ ReturnedFrom("dispatch_all")
    /\ max_accounts = 1
    /\ Len(Parsed("NTFY_TOPIC")) = 2
    /\ Len(Parsed("NTFY_TOKEN")) = 1
    /\ AccountsOf("ntfy") = <<>>
    /\ "ntfy" \in DOMAIN results /\ ~results["ntfy"]

\* ---------------------------------------------------------------------------
\* C32: when a push is recorded (DaySpec)
\* ---------------------------------------------------------------------------
\* dispatch_all has returned a mapping with a true entry.
SomeChannelSucceeded ==
    /\ dpc = "returned"
    /\ call = "dispatch_all"
    /\ \E c \in DOMAIN results : results[c]

\* A step changes the push record only by setting it, at the end of a
\* dispatch with a successful channel, under window and once-per-day.
StatedRecordStep ==
    push_record' # push_record =>
        /\ push_record'
        /\ gpc = "dispatch"
        /\ SomeChannelSucceeded
        /\ cfg.PUSH_WINDOW_ENABLED /\ cfg.ONCE_PER_DAY

\* A run whose dispatch had no successful channel leaves the record as it was.
StatedFailedDispatchStep ==
    (gpc = "dispatch" /\ dpc = "returned" /\ ~SomeChannelSucceeded) =>
        push_record' = push_record

\* C32: a push is recorded for the once-per-day gate only after a dispatch in
\* which at least one channel returned true, and only when the push window
\* and once-per-day are both enabled; a dispatch whose channels all failed, or
\* that returned an empty mapping, records nothing, so that a later run on the
\* same day may still dispatch.
C32_RecordOnlyAfterSuccess ==
    /\ [][StatedRecordStep /\ StatedFailedDispatchStep]_vars
    /\ [](pushed = 0 => ~push_record)

\* The first run dispatched under window and once-per-day and every channel
\* failed; the second run of the day is dispatching again.
C32_Witness ==
    /\ runs = 2
    /\ cfg.PUSH_WINDOW_ENABLED /\ cfg.ONCE_PER_DAY
    /\ previous.calls = 1
    /\ previous.results # <<>>
    /\ \A c \in DOMAIN previous.results : ~previous.results[c]
    /\ ~push_record
    /\ call = "dispatch_all"
    /\ attempts # <<>>

\* ---------------------------------------------------------------------------
\* C33: at most one successful dispatch a day (DaySpec)
\* ---------------------------------------------------------------------------
\* C33: with the push window and once-per-day enabled, over any sequence of
\* runs on the same day at most one dispatch with a successful channel
\* happens: once a run has recorded a push, every later run of the day skips
\* dispatch_all and sends nothing.
C33_OncePerDay ==
    (cfg.PUSH_WINDOW_ENABLED /\ cfg.ONCE_PER_DAY) =>
        /\ pushed <= 1
        /\ push_record <=> pushed = 1
        /\ push_record =>
              \/ call = "none" /\ attempts = <<>>
              \/ gpc = "done" /\ SomeChannelSucceeded

\* The second run of the day had content, a configured channel and a time
\* inside the window, and returned without a dispatch because the first run
\* had recorded its push.
C33_Witness ==
    /\ runs = 2
    /\ cfg.ENABLE_NOTIFICATION /\ cfg.PUSH_WINDOW_ENABLED /\ cfg.ONCE_PER_DAY
    /\ has_any_content /\ in_time_range /\ has_notification
    /\ push_record /\ pushed = 1
    /\ previous.calls = 1
    /\ gpc = "done" /\ returned = FALSE
    /\ call = "none" /\ attempts = <<>>

\* ---------------------------------------------------------------------------
\* C34: one dispatch per execution of the mode strategy (RunSpec)
\* ---------------------------------------------------------------------------
\* Calls of dispatch_all made so far by the run.
DispatchCalls == previous.calls + (IF call = "dispatch_all" THEN 1 ELSE 0)

\* C34: in one execution of the mode strategy dispatch_all is invoked at most
\* once: in the modes that send a realtime notification (incremental,
\* current) the summary step only generates HTML and sends no notification;
\* in daily mode no realtime notification is sent and only the summary report
\* dispatches.
C34_OneDispatchPerRun ==
    /\ DispatchCalls <= 1
    /\ report_mode \in {"incremental", "current"} =>
          /\ rpc # "summary_sent"
          /\ gpc \notin {"idle", "done"} => rpc = "realtime_sent"
    /\ report_mode = "daily" =>
          /\ rpc # "realtime_sent"
          /\ gpc \notin {"idle", "done"} => rpc = "summary_sent"
          /\ call = "dispatch_all" =>
                rpc \in {"summary_sent", "finally", "returned"}

\* An incremental run has returned: its realtime notification was dispatched
\* and the summary step made no call of dispatch_all.
C34_Witness ==
    /\ rpc = "returned"
    /\ report_mode = "incremental"
    /\ call = "dispatch_all"
    /\ attempts # <<>>
    /\ DispatchCalls = 1

\* A daily run has returned: the summary report was dispatched.
C34_DailySummary ==
    /\ rpc = "returned"
    /\ report_mode = "daily"
    /\ call = "dispatch_all"
    /\ attempts # <<>>
    /\ DispatchCalls = 1

\* ---------------------------------------------------------------------------
\* C35: what counts as content (RunSpec)
\* ---------------------------------------------------------------------------
\* The hotlist content rule of each mode, as stated.
StatedHotlistContent ==
    \/ report_mode = "incremental" /\ new_found /\ stats_matched
    \/ report_mode = "current" /\ stats_matched
    \/ report_mode = "daily" /\ (stats_matched \/ new_found)

\* C35: dispatch_all is not invoked unless notifications are enabled, at least
\* one channel is configured, and there is content: hotlist content is valid
\* in incremental mode only with new titles and a stat with count > 0, in
\* current mode with a stat with count > 0, in daily mode with a stat with
\* count > 0 or new titles; non-empty rss_items alone count as content in
\* every mode.
C35_DispatchNeedsContent ==
    /\ (call = "dispatch_all" \/ gpc \in {"window", "dispatch"}) =>
          /\ cfg.ENABLE_NOTIFICATION
          /\ StatedMinimumConfiguration("feishu")
          /\ StatedHotlistContent \/ rss_found
    /\ gpc \notin {"idle", "enter"} =>
          (has_any_content <=> (StatedHotlistContent \/ rss_found))

\* dispatch_all was called in incremental mode for RSS items alone: no new
\* titles and no matched stat.
C35_Witness ==
    /\ call = "dispatch_all"
    /\ report_mode = "incremental"
    /\ ~new_found /\ ~stats_matched
    /\ rss_found
    /\ attempts # <<>>

\* An incremental run with matched stats, no new titles and no RSS items has
\* returned without a call of dispatch_all, with notifications enabled and a
\* channel configured.
C35_IncrementalWithoutNew ==
    /\ rpc = "returned"
    /\ report_mode = "incremental"
    /\ stats_matched /\ ~new_found /\ ~rss_found
    /\ cfg.ENABLE_NOTIFICATION /\ has_notification
    /\ DispatchCalls = 0

\* ---------------------------------------------------------------------------
\* C36: segmentation does not depend on the account (ReuseSpec)
\* ---------------------------------------------------------------------------
\* The batch without the time of its footer.
Untimed(b) ==
    [p \in 1..Len(b) |-> IF b[p].k = "footer" THEN [b[p] EXCEPT !.n = 0]
                         ELSE b[p]]

\* The segmentation for the second account of the channel has returned.
SecondReturned == Returned /\ previous.calls = 1

NewEntries ==
    LET RECURSIVE Places(_)
        Places(g) ==
            IF g > Len(rss_new_items) THEN <<>>
            ELSE [n \in 1..Len(rss_new_items[g].titles) |-> <<g, n>>]
                     \o Places(g + 1)
    IN  Places(1)

NewSource(place) == rss_new_items[place[1]].titles[place[2]].source_name

\* place a is encountered before place b.
Before(a, b) == a[1] < b[1] \/ (a[1] = b[1] /\ a[2] < b[2])

\* The first entry of rss_new_items that names the source of the entry.
FirstOf(place) ==
    CHOOSE f \in {NewEntries[p] : p \in 1..Len(NewEntries)} :
        /\ NewSource(f) = NewSource(place)
        /\ \A p \in 1..Len(NewEntries) :
              NewSource(NewEntries[p]) = NewSource(place) =>
                  f = NewEntries[p] \/ Before(f, NewEntries[p])

\* The pieces of the RSS new-items section in the returned batches.
RssNewPieces == SelectSeq(Join(batches), LAMBDA p : p.sec = "rss_new")

\* The counts shown by the source headers, one per source group.
ShownCounts ==
    {<<p.g, p.n>> : p \in {RssNewPieces[q] : q \in {q \in 1..Len(RssNewPieces) :
                                                RssNewPieces[q].k = "group"}}}

RECURSIVE SumCounts(_)
SumCounts(pairs) ==
    IF pairs = {} THEN 0
    ELSE LET c == CHOOSE c \in pairs : TRUE
         IN  c[2] + SumCounts(pairs \ {c})

C37_NoEntries ==
    /\ Returned /\ ~EmptyReport
    /\ rss_new_items # <<>>
    /\ NewEntries = <<>>
    /\ RssNewPieces = <<>>

\* ---------------------------------------------------------------------------
\* C38: cleanup at the end of a run (FairRunSpec)
\* ---------------------------------------------------------------------------
\* run is over: it has returned, or its exception has reached the caller.
RunOver == rpc \in {"returned", "propagated"}

CleanupAtTheEnd ==
    /\ cleanups = (IF RunOver THEN 1 ELSE 0)
    /\ rpc = "returned" => exc = "none"
    /\ rpc = "propagated" => exc # "none"
    /\ exc # "none" => rpc \in {"finally", "propagated"}
    /\ exc = "RuntimeError" => report_mode = "current"

\* C38: run executes ctx.cleanup() exactly once, at its end, whether the
\* pipeline completed or raised: every run comes to its end, cleanup has been
\* executed once when it is over and not before, and a run in which an
\* exception was raised (the RuntimeError of current mode included) ends with
\* that exception going on to the caller, after cleanup.
C38_CleanupOnce == []CleanupAtTheEnd /\ <>RunOver

\* The RuntimeError of current mode has reached the caller of run, after
\* cleanup.
C38_Witness ==
    /\ rpc = "propagated"
    /\ exc = "RuntimeError"
    /\ report_mode = "current"
    /\ cleanups = 1

\* A run that dispatched has returned after cleanup.
C38_ReturnedAfterDispatch ==
    /\ rpc = "returned"
    /\ call = "dispatch_all"
    /\ cleanups = 1

\* ---------------------------------------------------------------------------
\* C39: the version check (VersionSpec)
\* ---------------------------------------------------------------------------
\* The text without the white space around it, read off its positions.
Trimmed(text) ==
    LET inked == {p \in 1..Len(text) : text[p] # " "}
    IN  IF inked = {} THEN <<>>
        ELSE LET first == CHOOSE p \in inked : \A q \in inked : p <= q
                 last == CHOOSE p \in inked : \A q \in inked : q <= p
             IN  SubSeq(text, first, last)

\* The three parts of a text with exactly two dots; <<>> for any other text.
StatedParts(text) ==
    LET t == Trimmed(text)
        dots == {p \in 1..Len(t) : t[p] = "."}
    IN  IF Cardinality(dots) # 2 THEN <<>>
        ELSE LET d1 == CHOOSE p \in dots : \A q \in dots : p <= q
                 d2 == CHOOSE p \in dots : \A q \in dots : q <= p
             IN  <<SubSeq(t, 1, d1 - 1), SubSeq(t, d1 + 1, d2 - 1),
                   SubSeq(t, d2 + 1, Len(t))>>

\* The part is an integer: digits, at least one, with nothing but white space
\* around them.
StatedInteger(part) ==
    /\ Trimmed(part) # <<>>
    /\ \A p \in 1..Len(Trimmed(part)) : Trimmed(part)[p] \in {"0", "1"}

RECURSIVE Power10(_)
Power10(n) == IF n = 0 THEN 1 ELSE 10 * Power10(n - 1)

RECURSIVE PlaceValues(_, _)
PlaceValues(digits, p) ==
    IF p > Len(digits) THEN 0
    ELSE (IF digits[p] = "1" THEN Power10(Len(digits) - p) ELSE 0)
             + PlaceValues(digits, p + 1)

\* The tuple a version text stands for: its three integer parts, or (0, 0, 0)
\* when it does not consist of exactly three integer parts.
StatedTuple(text) ==
    LET parts == StatedParts(text)
    IN  IF parts # <<>> /\ \A p \in 1..3 : StatedInteger(parts[p])
        THEN [p \in 1..3 |-> PlaceValues(Trimmed(parts[p]), 1)]
        ELSE <<0, 0, 0>>

\* b is strictly greater than a in lexicographic order.
StrictlyGreater(b, a) ==
    \E p \in 1..3 : a[p] < b[p] /\ \A q \in 1..(p - 1) : a[q] = b[q]

VersionReturned == vpc = "returned"

\* C39: check_version_update reports an update iff the tuple of the remote
\* version is strictly greater than the tuple of the current version in
\* lexicographic order, a text that is not exactly three integer parts
\* counting as (0, 0, 0); when the request raises it returns (False, None);
\* the remote version it returns is None whenever no update is needed, and the
\* stripped text of the response otherwise.
C39_VersionCheck ==
    /\ parse_version(current_version) = StatedTuple(current_version)
    /\ VersionReturned =>
          /\ parse_version(response.text) = StatedTuple(response.text)
          /\ ~response.ok =>
                update = [need_update |-> FALSE, remote_version |-> <<"None">>]
          /\ response.ok =>
                (update.need_update <=>
                    StrictlyGreater(StatedTuple(response.text),
                                    StatedTuple(current_version)))
          /\ ~update.need_update => update.remote_version = <<"None">>
          /\ update.need_update =>
                update.remote_version = Trimmed(response.text)

\* Version 10.0.0 was compared with the remote text " 1.1.1": no update,
\* although the text is greater as a string.
C39_Witness ==
    /\ VersionReturned
    /\ response.ok
    /\ current_version = <<"1", "0", ".", "0", ".", "0">>
    /\ response.text = <<" ", "1", ".", "1", ".", "1">>
    /\ ~update.need_update
    /\ update.remote_version = <<"None">>

\* Version 0.1.0 was compared with the remote text "0.1.1" and an update is
\* reported with that text.
C39_UpdateReported ==
    /\ VersionReturned
    /\ current_version = <<"0", ".", "1", ".", "0">>
    /\ response.text = <<"0", ".", "1", ".", "1">>
    /\ update = [need_update |-> TRUE,
                 remote_version |-> <<"0", ".", "1", ".", "1">>]

\* A remote text of four parts was taken as (0, 0, 0): no update for 0.1.0.
C39_FourParts ==
    /\ VersionReturned
    /\ response.ok
    /\ current_version = <<"0", ".", "1", ".", "0">>
    /\ response.text = <<"1", ".", "1", ".", "1", ".">>
    /\ ~update.need_update

====
